---------------------------- MODULE Spec2Model ----------------------------
(***************************************************************************)
(* A model of the review-result pipeline of cletus_code:                   *)
(*   - the auto-merge policy (process_review.should_auto_merge),           *)
(*   - the publish pipeline (process_review.main and                       *)
(*     run_review.ReviewOrchestrator.run / _process_review_results) with   *)
(*     the host calls it makes (apply_labels, publish_comment,             *)
(*     approve_and_merge), one action per host call attempt,               *)
(*   - concurrent publish_comment invocations against one pull request,    *)
(*   - the review report functions (load_review_data, validate_review_json,*)
(*     build_markdown's normalization and grouping of the findings,        *)
(*     derive_labels) applied to one parsed report.                        *)
(*                                                                         *)
(* Strings the code inspects (branch names, prefixes, patterns, logins,    *)
(* environment values) are sequences of one-character strings; strings the *)
(* code only builds (reasons) are TLA+ strings.                            *)
(***************************************************************************)
EXTENDS Integers, Sequences, FiniteSets, TLC

VARIABLES
    amIn,       \* should_auto_merge: the (pr, config) argument pair
    amOut,      \* should_auto_merge: the returned (allowed, reason), or "none"
    amPc,       \* should_auto_merge: "ready" before the call, "done" after
    inp,        \* per workflow run: its inputs (entry point, environment,
                \* review data, validation result, configuration, labels)
    run,        \* per workflow run: its position, local variables and what it
                \* has done so far
    host,       \* the repository host: the pull request's comments, labels,
                \* approvals and merge state, the repository's labels
    tokenType,  \* the user type of the identity behind GITHUB_TOKEN
    rpIn,       \* the review report functions: the report (parsed review.json)
                \* and the validate_structure argument they are applied to
    rpOut,      \* the review report functions: what each has returned
    rpPc        \* the review report functions: the next one to apply, or "done"

amVars == <<amIn, amOut, amPc>>
pipeVars == <<inp, run, host, tokenType>>
rpVars == <<rpIn, rpOut, rpPc>>
vars == <<amIn, amOut, amPc, inp, run, host, tokenType, rpIn, rpOut, rpPc>>

\* Bounds of the model.
NumRuns == 2            \* workflow runs against the same pull request
MaxErrors == 1          \* schema validation errors of a review
MaxInvocations == 3     \* publish_comment calls on the pull request, all runs together

Runs == 1..NumRuns

-----------------------------------------------------------------------------
(* Python values the policy reads: a string, None, a non-string, or an     *)
(* attribute whose read raises.                                            *)

S(chars) == [t |-> "str", s |-> chars]
PyNone == [t |-> "none", s |-> <<>>]
PyInt == [t |-> "int", s |-> <<>>]
PyRaise == [t |-> "raise", s |-> <<>>]

RECURSIVE Str(_)
Str(chars) == IF chars = <<>> THEN "" ELSE Head(chars) \o Str(Tail(chars))

IsSpace(c) == c = " "

RECURSIVE LStrip(_)
LStrip(chars) ==
    IF chars # <<>> /\ IsSpace(Head(chars)) THEN LStrip(Tail(chars)) ELSE chars

RECURSIVE RStrip(_)
RStrip(chars) ==
    IF chars # <<>> /\ IsSpace(chars[Len(chars)])
    THEN RStrip(SubSeq(chars, 1, Len(chars) - 1))
    ELSE chars

\* str.strip()
Strip(chars) == RStrip(LStrip(chars))

\* str.startswith(prefix)
StartsWith(text, prefix) ==
    /\ Len(prefix) <= Len(text)
    /\ SubSeq(text, 1, Len(prefix)) = prefix

\* "sep".join(parts)
RECURSIVE Join(_, _)
Join(parts, sep) ==
    IF parts = <<>> THEN ""
    ELSE IF Len(parts) = 1 THEN parts[1]
    ELSE parts[1] \o sep \o Join(Tail(parts), sep)

-----------------------------------------------------------------------------
(* re.search(pattern, text) for the pattern language of the model:         *)
(* literals, ".", "x*", a leading "^" and a trailing "$".  A pattern with  *)
(* "(" (never closed) or with "*" after nothing repeatable does not        *)
(* compile: re.error.                                                      *)

ReError(pat) ==
    \/ \E i \in 1..Len(pat) : pat[i] = "("
    \/ \E i \in 1..Len(pat) :
          /\ pat[i] = "*"
          /\ (i = 1 \/ pat[i - 1] \in {"^", "*", "$"})

RECURSIVE MatchHere(_, _)
RECURSIVE MatchStar(_, _, _)
MatchHere(pat, text) ==
    IF pat = <<>> THEN TRUE
    ELSE IF Len(pat) >= 2 /\ pat[2] = "*"
         THEN MatchStar(pat[1], SubSeq(pat, 3, Len(pat)), text)
    ELSE IF pat = <<"$">> THEN text = <<>>
    ELSE IF text # <<>> /\ (pat[1] = "." \/ pat[1] = text[1])
         THEN MatchHere(Tail(pat), Tail(text))
    ELSE FALSE

MatchStar(c, pat, text) ==
    \/ MatchHere(pat, text)
    \/ /\ text # <<>>
       /\ (c = "." \/ c = text[1])
       /\ MatchStar(c, pat, Tail(text))

ReSearch(pat, text) ==
    IF pat # <<>> /\ pat[1] = "^"
    THEN MatchHere(Tail(pat), text)
    ELSE \E k \in 0..Len(text) : MatchHere(pat, SubSeq(text, k + 1, Len(text)))

-----------------------------------------------------------------------------
(* should_auto_merge(pr, auto_merge_config)                                *)

\* (value or "").strip() inside try/except Exception: "" for None, for a
\* read that raises and for a value without strip().
ReadStripped(v) == IF v.t = "str" THEN Strip(v.s) ELSE <<>>

\* config.get(key) or []: a missing key and None give the empty list
ListOrEmpty(v) == IF v.present THEN v.items ELSE <<>>

\* not config.get("enabled", False), for enabled "True", "False" or "missing"
Enabled(config) == config.enabled = "True"

\* a prefix loop that stops at the first matching prefix
RECURSIVE PrefixMatchesFirstOnly(_, _)
PrefixMatchesFirstOnly(prefixes, branch) ==
    IF prefixes = <<>> THEN <<>>
    ELSE LET p == Head(prefixes)
         IN IF p.t = "str" /\ StartsWith(branch, p.s)
            THEN <<"branch prefix '" \o Str(p.s) \o "'">>
            ELSE PrefixMatchesFirstOnly(Tail(prefixes), branch)

\* the loop over branch_prefixes, appending to matched
RECURSIVE PrefixMatches(_, _)
PrefixMatches(prefixes, branch) ==
    IF prefixes = <<>> THEN <<>>
    ELSE LET p == Head(prefixes)
             rest == PrefixMatches(Tail(prefixes), branch)
         IN IF p.t = "str" /\ StartsWith(branch, p.s)
            THEN <<"branch prefix '" \o Str(p.s) \o "'">> \o rest
            ELSE rest

\* a regex loop that an invalid pattern ends
RECURSIVE RegexMatchesStopAtInvalid(_, _)
RegexMatchesStopAtInvalid(regexes, branch) ==
    IF regexes = <<>> THEN <<>>
    ELSE LET p == Head(regexes)
         IN IF p.t # "str" THEN RegexMatchesStopAtInvalid(Tail(regexes), branch)
            ELSE IF ReError(p.s) THEN <<>>
            ELSE IF ReSearch(p.s, branch)
                 THEN <<"branch regex '" \o Str(p.s) \o "'">>
                      \o RegexMatchesStopAtInvalid(Tail(regexes), branch)
            ELSE RegexMatchesStopAtInvalid(Tail(regexes), branch)

\* the loop over branch_regexes, appending to matched
RECURSIVE RegexMatches(_, _)
RegexMatches(regexes, branch) ==
    IF regexes = <<>> THEN <<>>
    ELSE LET p == Head(regexes)
             rest == RegexMatches(Tail(regexes), branch)
         IN IF p.t # "str" THEN rest
            ELSE IF ReError(p.s) THEN rest
            ELSE IF ReSearch(p.s, branch)
                 THEN <<"branch regex '" \o Str(p.s) \o "'">> \o rest
            ELSE rest

\* author and author in authors
AuthorMatches(authors, author) ==
    IF author # <<>> /\ \E i \in 1..Len(authors) : authors[i] = S(author)
    THEN <<"author '" \o Str(author) \o "'">>
    ELSE <<>>

NoMatchReason(branch, author) ==
    IF branch # <<>> \/ author # <<>>
    THEN "no rules matched for "
         \o Join((IF branch # <<>> THEN <<"branch '" \o Str(branch) \o "'">> ELSE <<>>)
                 \o (IF author # <<>> THEN <<"author '" \o Str(author) \o "'">> ELSE <<>>),
                 ", ")
    ELSE "no rules matched"

should_auto_merge(pr, config) ==
    IF ~Enabled(config)
    THEN <<FALSE, "disabled in repo config">>
    ELSE LET prefixes == ListOrEmpty(config.branch_prefixes)
             regexes == ListOrEmpty(config.branch_regexes)
             authors == ListOrEmpty(config.author_logins)
         IN IF prefixes = <<>> /\ regexes = <<>> /\ authors = <<>>
            THEN <<TRUE, "enabled for all PRs">>
            ELSE LET branch == ReadStripped(pr.ref)
                     author == ReadStripped(pr.login)
                     matched == PrefixMatches(prefixes, branch)
                                \o RegexMatches(regexes, branch)
                                \o AuthorMatches(authors, author)
                 IN IF matched # <<>>
                    THEN <<TRUE, Join(matched, "; ")>>
                    ELSE <<FALSE, NoMatchReason(branch, author)>>

-----------------------------------------------------------------------------
(* The policy applied to every pull request and configuration of the       *)
(* bounded input sets.                                                     *)

L(items) == [present |-> TRUE, items |-> items]
Missing == [present |-> FALSE, items |-> <<>>]

AmRefs ==
    { S(<<>>), S(<<"r", "/", "x">>), S(<<"f">>), S(<<" ", "r", "/", "x", " ">>),
      PyNone, PyRaise }

AmLogins == { S(<<"b">>), S(<<"d">>), S(<<>>), PyRaise }

AmEnabled == { "True", "False", "missing" }

AmPrefixLists ==
    { Missing, L(<<>>), L(<<S(<<"r", "/">>)>>), L(<<S(<<"f">>), S(<<"x">>)>>),
      L(<<S(<<"r">>), PyInt, S(<<"r", "/">>)>>), L(<<S(<<>>)>>) }

AmRegexLists ==
    { Missing, L(<<>>), L(<<S(<<"^", "r">>)>>), L(<<S(<<"(">>)>>),
      L(<<S(<<"x", "$">>), S(<<"r", ".", "*", "x">>)>>),
      L(<<S(<<"*", "r">>), S(<<"f">>)>>), L(<<PyInt>>) }

AmAuthorLists ==
    { Missing, L(<<>>), L(<<S(<<"b">>)>>), L(<<S(<<"d">>), S(<<"b">>)>>),
      L(<<S(<<>>), PyInt>>) }

AmInit ==
    /\ amIn \in [ pr : [ref : AmRefs, login : AmLogins],
                  config : [enabled : AmEnabled,
                            branch_prefixes : AmPrefixLists,
                            branch_regexes : AmRegexLists,
                            author_logins : AmAuthorLists] ]
    /\ amOut = <<FALSE, "none">>
    /\ amPc = "ready"

AmCall ==
    /\ amPc = "ready"
    /\ amOut' = should_auto_merge(amIn.pr, amIn.config)
    /\ amPc' = "done"
    /\ UNCHANGED <<amIn, pipeVars, rpVars>>

AmNext == AmCall

-----------------------------------------------------------------------------
(* The publish pipeline: inputs and local state of a workflow run.         *)

MaxRetries == 3

\* time.sleep(2 ** attempt)
Backoff(attempt) == 2 ^ attempt

UpperLetters ==
    <<"A", "B", "C", "D", "E", "F", "G", "H", "I", "J", "K", "L", "M",
      "N", "O", "P", "Q", "R", "S", "T", "U", "V", "W", "X", "Y", "Z">>

LowerLetters ==
    <<"a", "b", "c", "d", "e", "f", "g", "h", "i", "j", "k", "l", "m",
      "n", "o", "p", "q", "r", "s", "t", "u", "v", "w", "x", "y", "z">>

\* str.lower() and str.upper(), character by character
Lower(c) ==
    IF \E k \in 1..26 : UpperLetters[k] = c
    THEN LowerLetters[CHOOSE k \in 1..26 : UpperLetters[k] = c]
    ELSE c

Upper(c) ==
    IF \E k \in 1..26 : LowerLetters[k] = c
    THEN UpperLetters[CHOOSE k \in 1..26 : LowerLetters[k] = c]
    ELSE c

UpperAll(chars) == [i \in 1..Len(chars) |-> Upper(chars[i])]

LowerAll(chars) == [i \in 1..Len(chars) |-> Lower(chars[i])]

\* _should_skip_merge(): (REVIEW_SKIP_MERGE or "").strip().lower() in
\* {"1", "true", "yes"}, else GITHUB_EVENT_NAME == "workflow_dispatch"
should_skip_merge(skip_env, event_name) ==
    LET override == LowerAll(Strip(IF skip_env.t = "str" THEN skip_env.s ELSE <<>>))
    IN  IF override \in { <<"1">>, <<"t", "r", "u", "e">>, <<"y", "e", "s">> }
        THEN TRUE
        ELSE event_name = "workflow_dispatch"

\* bool(data.get("approved")) for a JSON boolean, null or string
Truthy(v) ==
    CASE v.t = "bool" -> v.b
      [] v.t = "str" -> v.s # <<>>
      [] OTHER -> FALSE

JBool(b) == [t |-> "bool", b |-> b, s |-> <<>>]
JStr(chars) == [t |-> "str", b |-> FALSE, s |-> chars]

\* a gate that forgets the validation errors
will_automerge_unvalidated(l) ==
    ~l.skip_merge /\ l.approved /\ l.auto_merge_allowed

\* will_automerge = not skip_merge and not validation_errors and approved
\*                  and auto_merge_allowed          (process_review.main)
will_automerge(l) ==
    ~l.skip_merge /\ l.validation_errors = 0 /\ l.approved /\ l.auto_merge_allowed

\* a gate that does not ask for the approval
orchestrator_gate_unapproved(l) ==
    l.validation_errors = 0 /\ l.auto_merge_allowed

\* elif not validation_errors and approved and auto_merge_allowed
\*                                  (ReviewOrchestrator._process_review_results)
orchestrator_gate(l) ==
    l.validation_errors = 0 /\ l.approved /\ l.auto_merge_allowed

SkipEnvValues ==
    { PyNone, S(<<"1">>), S(<<" ", "Y", "E", "S", " ">>), S(<<"n", "o">>) }

EventNames == { "pull_request", "workflow_dispatch" }

ApprovedValues == { JBool(TRUE), JBool(FALSE), JStr(<<"n", "o">>) }

\* (pull request, auto-merge configuration) pairs of the pipeline runs:
\* disabled, enabled with a matching prefix, enabled with no matching rule
AmCases ==
    { [pr |-> [ref |-> S(<<"r", "/", "x">>), login |-> S(<<"b">>)],
       config |-> [enabled |-> "False", branch_prefixes |-> L(<<S(<<"r", "/">>)>>),
                   branch_regexes |-> L(<<>>), author_logins |-> L(<<>>)]],
      [pr |-> [ref |-> S(<<"r", "/", "x">>), login |-> S(<<"b">>)],
       config |-> [enabled |-> "True", branch_prefixes |-> L(<<S(<<"r", "/">>)>>),
                   branch_regexes |-> L(<<>>), author_logins |-> L(<<>>)]],
      [pr |-> [ref |-> S(<<"f">>), login |-> S(<<"b">>)],
       config |-> [enabled |-> "True", branch_prefixes |-> L(<<S(<<"r", "/">>)>>),
                   branch_regexes |-> L(<<S(<<"(">>)>>), author_logins |-> L(<<>>)]] }

\* the label names derive_labels returns, in insertion order
LabelLists == { <<"change:other", "risk:low">> }

NoInput ==
    [entry |-> "idle", dry_run |-> FALSE, skip_env |-> PyNone,
     event_name |-> "pull_request", n_errors |-> 0, approved |-> JBool(FALSE),
     am |-> CHOOSE c \in AmCases : c.config.enabled = "False",
     labels |-> <<>>, markdown |-> "text"]

PipeInputs ==
    [entry : {"main", "orchestrator"}, dry_run : BOOLEAN,
     skip_env : SkipEnvValues, event_name : EventNames,
     n_errors : 0..MaxErrors, approved : ApprovedValues, am : AmCases,
     labels : LabelLists, markdown : {"text"}]

PublishInputs ==
    { [NoInput EXCEPT !.entry = "publish", !.markdown = m] : m \in {"text", "blank"} }

\* comments = pr.get_issue_comments(): not called yet, returned or raised
NotListed == [state |-> "none", comments |-> <<>>]
Listed(comments) == [state |-> "ok", comments |-> comments]
ListRaised == [state |-> "raised", comments |-> <<>>]

\* The local state of a run that has not done anything yet.
Fresh(pc) ==
    [pc |-> pc,
     attempt |-> 0,              \* the retry loops' loop variable
     calls |-> 0,                \* calls made by the current (last) host operation
     sleeps |-> <<>>,            \* the waits of the current (last) retry loop
     lastOp |-> "none",          \* the last host call made and its outcome
     lastRes |-> "none",
     events |-> <<>>,            \* file writes, functions entered, host
                                 \* operations started, exit: in order
     exit |-> -1,                \* exit status, -1 while running
     failed |-> FALSE,           \* some host call has failed
     validation_errors |-> -1,   \* len(validation_errors), -1 before validate_review
     skip_merge |-> FALSE,
     approved |-> FALSE,
     auto_merge_allowed |-> FALSE,
     existing |-> {},            \* apply_labels: names of the repository's labels
     labelIdx |-> 0,             \* apply_labels: position in labels.items()
     labelsFetched |-> "none",   \* apply_labels: repo.get_labels() "ok" or "raised"
     labelCalls |-> <<>>,        \* apply_labels: the create_label calls and results
     conflicts |-> FALSE,        \* some create_label of the run was answered 422
     is_merged |-> "none",       \* approve_and_merge: pr.is_merged() said "yes" or "no"
     head_base |-> "none",       \* approve_and_merge: head and base repository are
                                 \* the "same", "different", or the read "raised"
     listed |-> NotListed,       \* publish_comment: the comments the check listed
     invocations |-> 0]          \* publish_comment calls made by this run slot

HostInit(comments, repoLabels, merged) ==
    [comments |-> comments, repoLabels |-> repoLabels, prLabels |-> {},
     merged |-> merged, approvals |-> 0, branchDeleted |-> FALSE]

\* A comment: who made it (0: before the runs, else the run) and its user type.
Comment(by, type) == [by |-> by, type |-> type]

PipeIdle ==
    /\ inp = [r \in Runs |-> NoInput]
    /\ run = [r \in Runs |-> Fresh("done")]
    /\ host = HostInit(<<>>, {}, FALSE)
    /\ tokenType = "Bot"

AmIdle ==
    /\ amIn = [pr |-> [ref |-> PyNone, login |-> PyNone],
               config |-> [enabled |-> "False", branch_prefixes |-> Missing,
                           branch_regexes |-> Missing, author_logins |-> Missing]]
    /\ amOut = <<FALSE, "none">>
    /\ amPc = "done"

\* One pipeline run (run 1) against a pull request.
PipeInit ==
    /\ inp \in { [r \in Runs |-> IF r = 1 THEN i ELSE NoInput] : i \in PipeInputs }
    /\ run = [r \in Runs |-> IF r = 1 THEN Fresh("start") ELSE Fresh("done")]
    /\ host \in { HostInit(c, labels, m) :
                     c \in { <<>>, <<Comment(0, "Bot")>> },
                     labels \in { {}, {"risk:low"}, {"change:other", "risk:low"} },
                     m \in BOOLEAN }
    /\ tokenType = "Bot"

\* Every run slot calls publish_comment on the same pull request.
PublishInit ==
    /\ inp \in [Runs -> PublishInputs]
    /\ run = [r \in Runs |-> [Fresh("publish_comment") EXCEPT !.invocations = 1]]
    /\ host \in { HostInit(c, {}, FALSE) :
                     c \in { <<>>, <<Comment(0, "User")>>, <<Comment(0, "Bot")>>,
                             <<Comment(0, "User"), Comment(0, "Bot")>> } }
    /\ tokenType \in {"Bot", "User"}

-----------------------------------------------------------------------------
(* Steps shared by the actions.  l is a run's local state, i its inputs.   *)

Log(l, evs) == [l EXCEPT !.events = @ \o evs]

\* the process ends with an exit status
Exit(l, code) ==
    [l EXCEPT !.pc = "done", !.exit = code, !.attempt = 0,
              !.events = Append(@, "exit")]

\* an exception leaves the function: main() turns it into sys.exit(1); a
\* direct publish_comment call ends raising
Raise(l, i) ==
    IF i.entry = "publish"
    THEN [l EXCEPT !.pc = "returned", !.exit = 1, !.attempt = 0]
    ELSE Exit(l, 1)

\* an end that reports success whatever validation found
FinishIgnoringValidation(l) == Exit(l, 0)

\* the end of main() and of _process_review_results(): sys.exit(1) when
\* validation_errors is non-empty
Finish(l) == IF l.validation_errors > 0 THEN Exit(l, 1) ELSE Exit(l, 0)

\* a pipeline that never writes review.md
WriteMarkdownOmitted(l) == l

\* markdown_path.write_text(markdown)
WriteMarkdown(l) == Log(l, <<"write_md">>)

\* a host call: counted, and logged when it is the operation's first attempt
Called(l, op, res) ==
    [l EXCEPT !.calls = IF l.attempt = 0 THEN 1 ELSE @ + 1,
              !.sleeps = IF l.attempt = 0 THEN <<>> ELSE @,
              !.lastOp = op,
              !.lastRes = res,
              !.failed = @ \/ res # "ok",
              !.events = IF l.attempt = 0 THEN Append(@, op) ELSE @]

\* a retry loop that gives up one attempt late
RetryFailedOffByOne(l, i) ==
    IF l.attempt = MaxRetries
    THEN Raise(l, i)
    ELSE [l EXCEPT !.attempt = @ + 1, !.sleeps = Append(@, Backoff(l.attempt))]

\* except GithubException in a retry loop: raise on the last attempt, else
\* time.sleep(2 ** attempt) and go round again
RetryFailed(l, i) ==
    IF l.attempt = MaxRetries - 1
    THEN Raise(l, i)
    ELSE [l EXCEPT !.attempt = @ + 1, !.sleeps = Append(@, Backoff(l.attempt))]

\* a branch deletion whose last failure is raised like the other loops' is
DeleteRefFailedFatal(l, i) == RetryFailed(l, i)

\* except GithubException in the branch deletion loop: break on the last
\* attempt, else time.sleep(2 ** attempt) and go round again
DeleteRefFailed(l, i) ==
    IF l.attempt = MaxRetries - 1
    THEN Finish(l)
    ELSE [l EXCEPT !.attempt = @ + 1, !.sleeps = Append(@, Backoff(l.attempt))]

\* the approve-and-merge condition of the entry point
Gate(l, i) == IF i.entry = "main" THEN will_automerge(l) ELSE orchestrator_gate(l)

\* publish_comment has returned: if skip_merge ... elif <gate> ... else ...
AfterPublish(l, i) ==
    IF i.entry = "publish"
    THEN [l EXCEPT !.pc = "returned", !.exit = 0, !.attempt = 0]
    ELSE IF l.skip_merge THEN Finish(l)
    ELSE IF Gate(l, i) THEN [l EXCEPT !.pc = "approve_and_merge", !.attempt = 0]
    ELSE Finish(l)

\* the decision inputs both entry points compute before building the markdown
Decide(l, i) ==
    [l EXCEPT !.auto_merge_allowed = should_auto_merge(i.am.pr, i.am.config)[1],
              !.skip_merge = should_skip_merge(i.skip_env, i.event_name),
              !.approved = Truthy(i.approved)]

\* a loop that asks for every label, whatever the repository has
NextMissingIgnoringExisting(labels, existing, idx) == idx

\* for name in labels: if name not in existing -- the next name to create
RECURSIVE NextMissing(_, _, _)
NextMissing(labels, existing, idx) ==
    IF idx > Len(labels) THEN idx
    ELSE IF labels[idx] \notin existing THEN idx
    ELSE NextMissing(labels, existing, idx + 1)

AfterLabel(l, i, idx) ==
    LET next == NextMissing(i.labels, l.existing, idx)
    IN  [l EXCEPT !.labelIdx = next,
                  !.pc = IF next > Len(i.labels) THEN "add_to_labels" ELSE "create_label"]

\* a check that looks at the first comment only
HasBotCommentFirstOnly(comments) == comments # <<>> /\ comments[1].type = "Bot"

HasBotComment(comments) == \E k \in 1..Len(comments) : comments[k].type = "Bot"

Range(seq) == { seq[k] : k \in 1..Len(seq) }

-----------------------------------------------------------------------------
(* process_review.main                                                     *)

\* load_review_data, validate_review, and the dry-run branch
MainStart(r) ==
    /\ run[r].pc = "start"
    /\ inp[r].entry = "main"
    /\ LET l == [run[r] EXCEPT !.validation_errors = inp[r].n_errors]
       IN  run' = [run EXCEPT ![r] =
                      IF inp[r].dry_run
                      THEN Exit(WriteMarkdown(l), 0)
                      ELSE [l EXCEPT !.pc = "load_pull_request"]]
    /\ UNCHANGED <<inp, host, tokenType, amVars, rpVars>>

\* load_pull_request, should_auto_merge, _should_skip_merge, build_markdown
\* and the write of review.md
LoadPullRequest(r) ==
    /\ run[r].pc = "load_pull_request"
    /\ \E res \in {"ok", "gh"} :
          LET l == Called(run[r], "load_pull_request", res)
          IN  run' = [run EXCEPT ![r] =
                         IF res = "ok"
                         THEN [WriteMarkdown(Decide(l, inp[r])) EXCEPT !.pc = "apply_labels"]
                         ELSE Raise(l, inp[r])]
    /\ UNCHANGED <<inp, host, tokenType, amVars, rpVars>>

-----------------------------------------------------------------------------
(* ReviewOrchestrator.run                                                  *)

\* steps 1 to 3: a plugin result with comment_content is posted unless DRY_RUN
OrchStart(r) ==
    /\ run[r].pc = "start"
    /\ inp[r].entry = "orchestrator"
    /\ \E has_comment \in BOOLEAN :
          run' = [run EXCEPT ![r].pc =
                     IF has_comment /\ ~inp[r].dry_run
                     THEN "plugin_comment"
                     ELSE "validate_structured_output"]
    /\ UNCHANGED <<inp, host, tokenType, amVars, rpVars>>

\* _post_comment: pr.create_issue_comment(content); a failure is only logged
PluginComment(r) ==
    /\ run[r].pc = "plugin_comment"
    /\ \E res \in {"ok", "exc"} :
          /\ run' = [run EXCEPT ![r] =
                        [Called(run[r], "plugin_comment", res)
                            EXCEPT !.pc = "validate_structured_output"]]
          /\ host' = IF res = "ok"
                     THEN [host EXCEPT !.comments = Append(@, Comment(r, tokenType))]
                     ELSE host
    /\ UNCHANGED <<inp, tokenType, amVars, rpVars>>

\* a stop hook that logs the error and goes on to _process_review_results
StructuredFailureSwallowed(l) ==
    [Log(l, <<"ReviewValidationError">>) EXCEPT !.pc = "apply_labels"]

\* validate_review_json raised: logged and raised again, which ends the run
StructuredFailure(l) == Exit(Log(l, <<"ReviewValidationError">>), 1)

\* step 7, _validate_structured_output, then step 8, _process_review_results,
\* up to the write of review.md
ValidateStructured(r) ==
    /\ run[r].pc = "validate_structured_output"
    /\ \E others_ok \in BOOLEAN :
          LET l == run[r]
              valid == others_ok /\ inp[r].approved.t = "bool"
          IN  run' = [run EXCEPT ![r] =
                         IF valid
                         THEN [WriteMarkdown(
                                  Decide([l EXCEPT !.validation_errors = inp[r].n_errors],
                                         inp[r]))
                                  EXCEPT !.pc = "apply_labels"]
                         ELSE StructuredFailure(l)]
    /\ UNCHANGED <<inp, host, tokenType, amVars, rpVars>>

-----------------------------------------------------------------------------
(* apply_labels                                                            *)

\* repo.get_labels(); a failure leaves existing empty
GetLabels(r) ==
    /\ run[r].pc = "apply_labels"
    /\ LET l0 == Log(run[r], <<"apply_labels">>)
       IN  IF inp[r].labels = <<>>
           THEN run' = [run EXCEPT ![r] = [l0 EXCEPT !.pc = "publish_comment"]]
           ELSE \E res \in {"ok", "gh"} :
                   LET l1 == [Called(l0, "get_labels", res)
                                 EXCEPT !.existing =
                                            IF res = "ok" THEN host.repoLabels ELSE {},
                                        !.labelsFetched =
                                            IF res = "ok" THEN "ok" ELSE "raised"]
                   IN  run' = [run EXCEPT ![r] = AfterLabel(l1, inp[r], 1)]
    /\ UNCHANGED <<inp, host, tokenType, amVars, rpVars>>

\* repo.create_label for the next missing label: HTTP 422 is passed over, any
\* other failure is raised at once
CreateLabel(r) ==
    /\ run[r].pc = "create_label"
    /\ LET name == inp[r].labels[run[r].labelIdx]
       IN  \E res \in {"ok", "gh422", "gh500", "exc"} :
              /\ res = "ok" => name \notin host.repoLabels
              /\ res = "gh422" => name \in host.repoLabels
              /\ LET l == [Called(run[r], "create_label", res)
                              EXCEPT !.labelCalls =
                                         Append(@, [name |-> name, res |-> res]),
                                     !.conflicts = @ \/ res = "gh422"]
                 IN  run' = [run EXCEPT ![r] =
                                IF res \in {"ok", "gh422"}
                                THEN AfterLabel(l, inp[r], l.labelIdx + 1)
                                ELSE Raise(l, inp[r])]
              /\ host' = IF res = "ok"
                         THEN [host EXCEPT !.repoLabels = @ \cup {name}]
                         ELSE host
    /\ UNCHANGED <<inp, tokenType, amVars, rpVars>>

\* pr.add_to_labels(*labels.keys()) in its retry loop
AddLabels(r) ==
    /\ run[r].pc = "add_to_labels"
    /\ \E res \in {"ok", "gh", "exc"} :
          LET l == Called(run[r], "add_to_labels", res)
          IN  /\ run' = [run EXCEPT ![r] =
                            CASE res = "ok" -> [l EXCEPT !.pc = "publish_comment",
                                                         !.attempt = 0,
                                                         !.existing = {},
                                                         !.labelIdx = 0,
                                                         !.labelsFetched = "none",
                                                         !.labelCalls = <<>>]
                              [] res = "gh" -> RetryFailed(l, inp[r])
                              [] OTHER -> Raise(l, inp[r])]
              /\ host' = IF res = "ok"
                         THEN [host EXCEPT !.prLabels = @ \cup Range(inp[r].labels)]
                         ELSE host
    /\ UNCHANGED <<inp, tokenType, amVars, rpVars>>

-----------------------------------------------------------------------------
(* publish_comment                                                         *)

\* the empty-markdown return and the bot-comment check over
\* pr.get_issue_comments(); a failure of the check is only logged
ListComments(r) ==
    /\ run[r].pc = "publish_comment"
    /\ LET l0 == Log(run[r], <<"publish_comment">>)
       IN  IF inp[r].markdown = "blank"
           THEN run' = [run EXCEPT ![r] = AfterPublish(l0, inp[r])]
           ELSE \E res \in {"ok", "exc"} :
                   LET l1 == Called(l0, "get_issue_comments", res)
                   IN  run' = [run EXCEPT ![r] =
                                  CASE res = "ok" /\ HasBotComment(host.comments) ->
                                           AfterPublish(
                                               [l1 EXCEPT !.listed = Listed(host.comments)],
                                               inp[r])
                                    [] res = "ok" /\ ~HasBotComment(host.comments) ->
                                           [l1 EXCEPT !.listed = Listed(host.comments),
                                                      !.pc = "create_issue_comment"]
                                    [] OTHER ->
                                           [l1 EXCEPT !.listed = ListRaised,
                                                      !.pc = "create_issue_comment"]]
    /\ UNCHANGED <<inp, host, tokenType, amVars, rpVars>>

\* pr.create_issue_comment(markdown) in its retry loop
CreateComment(r) ==
    /\ run[r].pc = "create_issue_comment"
    /\ \E res \in {"ok", "gh", "exc"} :
          LET l == Called(run[r], "create_issue_comment", res)
          IN  /\ run' = [run EXCEPT ![r] =
                            CASE res = "ok" -> AfterPublish(l, inp[r])
                              [] res = "gh" -> RetryFailed(l, inp[r])
                              [] OTHER -> Raise(l, inp[r])]
              /\ host' = IF res = "ok"
                         THEN [host EXCEPT !.comments = Append(@, Comment(r, tokenType))]
                         ELSE host
    /\ UNCHANGED <<inp, tokenType, amVars, rpVars>>

\* the publish_comment calls made so far by the runs 1..n
RECURSIVE Invocations(_)
Invocations(n) == IF n = 0 THEN 0 ELSE run[n].invocations + Invocations(n - 1)

\* the next publish attempt of the same run slot
Reinvoke(r) ==
    /\ run[r].pc = "returned"
    /\ Invocations(NumRuns) < MaxInvocations
    /\ run' = [run EXCEPT ![r] =
                  [Fresh("publish_comment") EXCEPT !.invocations = run[r].invocations + 1]]
    /\ UNCHANGED <<inp, host, tokenType, amVars, rpVars>>

-----------------------------------------------------------------------------
(* approve_and_merge                                                       *)

\* an approve_and_merge that goes on whatever pr.is_merged() said
AfterIsMergedUnguarded(l, merged) ==
    [l EXCEPT !.pc = "create_review", !.is_merged = IF merged THEN "yes" ELSE "no"]

\* if pr.is_merged(): return
AfterIsMerged(l, merged) ==
    IF merged
    THEN Finish([l EXCEPT !.is_merged = "yes"])
    ELSE [l EXCEPT !.pc = "create_review", !.is_merged = "no"]

\* pr.is_merged(): an already merged pull request is left alone
IsMerged(r) ==
    /\ run[r].pc = "approve_and_merge"
    /\ \E res \in {"ok", "exc"} :
          LET l == Called(Log(run[r], <<"approve_and_merge">>), "is_merged", res)
          IN  run' = [run EXCEPT ![r] =
                         IF res # "ok" THEN Raise(l, inp[r])
                         ELSE AfterIsMerged(l, host.merged)]
    /\ UNCHANGED <<inp, host, tokenType, amVars, rpVars>>

\* pr.create_review(body=markdown, event="APPROVE") in its retry loop
CreateReview(r) ==
    /\ run[r].pc = "create_review"
    /\ \E res \in {"ok", "gh", "exc"} :
          LET l == Called(run[r], "create_review", res)
          IN  /\ run' = [run EXCEPT ![r] =
                            CASE res = "ok" -> [l EXCEPT !.pc = "merge", !.attempt = 0]
                              [] res = "gh" -> RetryFailed(l, inp[r])
                              [] OTHER -> Raise(l, inp[r])]
              /\ host' = IF res = "ok"
                         THEN [host EXCEPT !.approvals = @ + 1]
                         ELSE host
    /\ UNCHANGED <<inp, tokenType, amVars, rpVars>>

\* pr.merge(merge_method="merge") in its retry loop; after a merge the head
\* branch is deleted when head and base repository are the same; a failure to
\* read pr.head.repo or pr.base.repo is only logged
Merge(r) ==
    /\ run[r].pc = "merge"
    /\ \E res \in {"ok", "gh", "exc"}, repos \in {"same", "different", "raised"} :
          LET l == Called(run[r], "merge", res)
          IN  /\ run' = [run EXCEPT ![r] =
                            CASE res = "ok" /\ repos = "same" ->
                                     [l EXCEPT !.pc = "delete_ref", !.attempt = 0,
                                               !.head_base = repos]
                              [] res = "ok" /\ repos # "same" ->
                                     Finish([l EXCEPT !.head_base = repos])
                              [] res = "gh" -> RetryFailed(l, inp[r])
                              [] OTHER -> Raise(l, inp[r])]
              /\ host' = IF res = "ok" THEN [host EXCEPT !.merged = TRUE] ELSE host
    /\ UNCHANGED <<inp, tokenType, amVars, rpVars>>

\* base_repo.get_git_ref("heads/<ref>").delete() in its retry loop: a failure
\* never leaves approve_and_merge
DeleteRef(r) ==
    /\ run[r].pc = "delete_ref"
    /\ \E res \in {"ok", "gh", "exc"} :
          LET l == Called(run[r], "delete_ref", res)
          IN  /\ run' = [run EXCEPT ![r] =
                            CASE res = "gh" -> DeleteRefFailed(l, inp[r])
                              [] OTHER -> Finish(l)]
              /\ host' = IF res = "ok" THEN [host EXCEPT !.branchDeleted = TRUE] ELSE host
    /\ UNCHANGED <<inp, tokenType, amVars, rpVars>>

-----------------------------------------------------------------------------
(* The review report: load_review_data, validate_review_json,              *)
(* build_markdown's normalization of the findings, derive_labels.          *)

\* A key the mapping does not have; PyInt stands for the number 5 here (a
\* truthy value that is not a string).
PyAbsent == [t |-> "absent", s |-> <<>>]

\* mapping.get(key): None for a key the mapping does not have
Get(v) == IF v.t = "absent" THEN PyNone ELSE v

\* bool(value)
IsTruthy(v) == v.t = "int" \/ (v.t = "str" /\ v.s # <<>>)

\* (value or ""), then a str method: AttributeError for a truthy non-string
OrEmptyRaises(v) == v.t = "int"
OrEmpty(v) == IF v.t = "str" THEN v.s ELSE <<>>

\* f"{value}"
Format(v) ==
    CASE v.t = "str" -> v.s
      [] v.t = "int" -> <<"5">>
      [] OTHER -> <<"N", "o", "n", "e">>

\* The characters of the model in code point order; CharCode orders them as
\* Python's string comparison does.
CodeOrder ==
    <<" ", "-", ".", "/", "0", "1", "2", "3", "4", "5", "6", "7", "8", "9", ":", ">">>
    \o UpperLetters \o <<"_">> \o LowerLetters

CharCode(c) == CHOOSE k \in 1..Len(CodeOrder) : CodeOrder[k] = c

\* a < b for str
RECURSIVE StrLess(_, _)
StrLess(a, b) ==
    IF b = <<>> THEN FALSE
    ELSE IF a = <<>> THEN TRUE
    ELSE IF Head(a) = Head(b) THEN StrLess(Tail(a), Tail(b))
    ELSE CharCode(Head(a)) < CharCode(Head(b))

\* str(n) for n >= 0
RECURSIVE Digits(_)
Digits(n) ==
    LET d == <<"0", "1", "2", "3", "4", "5", "6", "7", "8", "9">>[(n % 10) + 1]
    IN IF n < 10 THEN <<d>> ELSE Append(Digits(n \div 10), d)

\* text[:k], for k of either sign
SliceTo(text, k) ==
    IF k >= 0
    THEN SubSeq(text, 1, IF k < Len(text) THEN k ELSE Len(text))
    ELSE SubSeq(text, 1, IF Len(text) + k > 0 THEN Len(text) + k ELSE 0)

\* utils.truncate(text, limit), text a string
truncate(text, limit) ==
    LET stripped == Strip(text)
    IN IF Len(stripped) <= limit
       THEN stripped
       ELSE SliceTo(stripped, limit - 3) \o <<".", ".", ".">>

SummaryLimit == 280

\* utils.normalize_risk(value): raises for a truthy non-string
normalize_risk(v) ==
    IF IsTruthy(v) THEN UpperAll(v.s) ELSE <<"U", "N", "K", "N", "O", "W", "N">>

\* utils._RISK_PRIORITY, and .get(normalized, len(_RISK_PRIORITY))
RiskPriority ==
    << <<"H", "I", "G", "H">>, <<"M", "E", "D", "I", "U", "M">>,
       <<"L", "O", "W">>, <<"U", "N", "K", "N", "O", "W", "N">> >>

risk_sort_key(v) ==
    LET normalized == normalize_risk(v)
    IN IF \E k \in 1..Len(RiskPriority) : RiskPriority[k] = normalized
       THEN (CHOOSE k \in 1..Len(RiskPriority) : RiskPriority[k] = normalized) - 1
       ELSE Len(RiskPriority)

\* [a-z0-9]
SlugChar(c) ==
    \/ \E k \in 1..26 : LowerLetters[k] = c
    \/ c \in {"0", "1", "2", "3", "4", "5", "6", "7", "8", "9"}

\* _ANCHOR_ALLOWED_RE.sub("-", text): every maximal run of other characters
\* becomes one "-"
RECURSIVE SubDash(_)
SubDash(text) ==
    IF text = <<>> THEN <<>>
    ELSE IF SlugChar(Head(text)) THEN <<Head(text)>> \o SubDash(Tail(text))
    ELSE IF Len(text) >= 2 /\ ~SlugChar(text[2]) THEN SubDash(Tail(text))
    ELSE <<"-">> \o SubDash(Tail(text))

\* str.strip("-")
RECURSIVE StripDash(_)
StripDash(text) ==
    IF text # <<>> /\ Head(text) = "-" THEN StripDash(Tail(text))
    ELSE IF text # <<>> /\ text[Len(text)] = "-"
         THEN StripDash(SubSeq(text, 1, Len(text) - 1))
    ELSE text

\* utils.slugify(text, fallback)
slugify(text, fallback) ==
    LET normalized == LowerAll(Strip(text))
        slug == StripDash(SubDash(normalized))
    IN IF slug # <<>> THEN slug ELSE fallback

\* counter[key] of a defaultdict(int)
Count(counter, key) == IF key \in DOMAIN counter THEN counter[key] ELSE 0

Bump(counter, key) ==
    [k \in DOMAIN counter \cup {key} |-> IF k = key THEN Count(counter, key) + 1 ELSE counter[k]]

\* a repeated anchor returned as it is
RepeatedAnchorBare(anchor, suffix) == anchor

\* f"{anchor}-{suffix}"
RepeatedAnchor(anchor, suffix) == anchor \o <<"-">> \o Digits(suffix)

\* utils.make_anchor(counter, prefix, text, fallback): the returned anchor
\* and the counter afterwards
make_anchor(counter, prefix, text, fallback) ==
    LET base == slugify(text, fallback)
        anchor == IF prefix # <<>> THEN prefix \o <<"-">> \o base ELSE base
    IN IF Count(counter, anchor) # 0
       THEN [anchor |-> RepeatedAnchor(anchor, Count(counter, anchor)),
             counter |-> Bump(counter, anchor)]
       ELSE [anchor |-> anchor, counter |-> Bump(counter, anchor)]

\* A raw finding is a record: obj is FALSE for an entry that is not a JSON
\* object; type, title, risk, summary, changeType, resource are values
\* (PyAbsent for a missing key); subject and component are NoDict (missing
\* key), NonDict (a value that is no object) or Dict(kind, name, from, to);
\* location is NoDict, NonDict or a Dict of which only resource is read;
\* tags is NoList, NonList or List(values); diff is evidence.diff.
NoDict == [t |-> "absent", kind |-> PyAbsent, name |-> PyAbsent,
           from |-> PyAbsent, to |-> PyAbsent, resource |-> PyAbsent]
NonDict == [NoDict EXCEPT !.t = "other"]
Dict(kind, name, from, to) ==
    [t |-> "dict", kind |-> kind, name |-> name, from |-> from, to |-> to,
     resource |-> PyAbsent]
LocationDict(resource) == [NoDict EXCEPT !.t = "dict", !.resource = resource]
EmptyDict == [NoDict EXCEPT !.t = "dict"]

NoList == [t |-> "absent", items |-> <<>>]
NonList == [t |-> "other", items |-> <<>>]
List(items) == [t |-> "list", items |-> items]

\* x if isinstance(x, dict) else {}
DictOrEmpty(d) == IF d.t = "dict" THEN d ELSE EmptyDict

\* bool(d) for a dict
NonEmptyDict(d) ==
    /\ d.t = "dict"
    /\ \E v \in {d.kind, d.name, d.from, d.to, d.resource} : v.t # "absent"

\* "key" in item
HasKey(v) == v.t # "absent"

Chars(str) ==
    CASE str = "version" -> <<"v", "e", "r", "s", "i", "o", "n">>
      [] str = "resource" -> <<"r", "e", "s", "o", "u", "r", "c", "e">>
      [] str = "finding" -> <<"f", "i", "n", "d", "i", "n", "g">>
      [] str = "n/a" -> <<"n", "/", "a">>
      [] str = " finding" -> <<" ", "f", "i", "n", "d", "i", "n", "g">>
      [] str = " -> " -> <<" ", "-", ">", " ">>
      [] str = "change:" -> <<"c", "h", "a", "n", "g", "e", ":">>
      [] str = "update:" -> <<"u", "p", "d", "a", "t", "e", ":">>
      [] str = "risk:" -> <<"r", "i", "s", "k", ":">>
      [] str = "other" -> <<"o", "t", "h", "e", "r">>
      [] str = "change" -> <<"c", "h", "a", "n", "g", "e">>
      [] str = "update" -> <<"u", "p", "d", "a", "t", "e">>
      [] str = "HIGH" -> <<"H", "I", "G", "H">>
      [] str = "MEDIUM" -> <<"M", "E", "D", "I", "U", "M">>

\* lines 342-349: the type of a finding
FindingType(item) ==
    LET given == LowerAll(Strip(OrEmpty(Get(item.type))))
    IN IF given # <<>> THEN given
       ELSE IF HasKey(item.component) THEN Chars("version")
       ELSE IF HasKey(item.resource) \/ HasKey(item.changeType) THEN Chars("resource")
       ELSE Chars("finding")

\* lines 354-362: the subject mapping the fields are read from
SubjectData(item) ==
    LET subject_data == DictOrEmpty(item.subject)
        component == DictOrEmpty(item.component)
    IN IF ~NonEmptyDict(subject_data) /\ NonEmptyDict(component)
       THEN Dict(Get(component.kind), Get(component.name),
                 Get(component.from), Get(component.to))
       ELSE subject_data

\* lines 368-371: x.strip() or None for a string, x otherwise
StripOrNone(v) ==
    IF v.t = "str"
    THEN (IF Strip(v.s) = <<>> THEN PyNone ELSE S(Strip(v.s)))
    ELSE Get(v)

\* lines 364-379
Subject(item) ==
    LET subject_data == SubjectData(item)
        subject_kind == Strip(OrEmpty(Get(subject_data.kind)))
        subject_name == Strip(OrEmpty(Get(subject_data.name)))
    IN IF subject_kind # <<>> \/ subject_name # <<>>
       THEN [t |-> "dict", kind |-> subject_kind, name |-> subject_name,
             from |-> StripOrNone(subject_data.from),
             to |-> StripOrNone(subject_data.to)]
       ELSE [t |-> "none", kind |-> <<>>, name |-> <<>>,
             from |-> PyNone, to |-> PyNone]

\* lines 381-398: the resource of the location, <<>> when the location has
\* none
LocationResource(item) ==
    LET given == DictOrEmpty(item.location)
        location_data == IF ~NonEmptyDict(given) /\ IsTruthy(Get(item.resource))
                         THEN LocationDict(Get(item.resource))
                         ELSE given
        location_resource == Get(location_data.resource)
    IN IF location_resource.t = "str" THEN Strip(location_resource.s) ELSE <<>>

\* the title of a finding without the fallbacks of lines 401-411
TitleAsGiven(item) == Strip(OrEmpty(Get(item.title)))

\* lines 400-411: the title of a finding
Title(item) ==
    LET title == Strip(OrEmpty(Get(item.title)))
        subject_data == SubjectData(item)
        subject_name == Strip(OrEmpty(Get(subject_data.name)))
        subject_from == StripOrNone(subject_data.from)
        subject_to == StripOrNone(subject_data.to)
        from_label == IF IsTruthy(subject_from) THEN Format(subject_from) ELSE Chars("n/a")
        to_label == IF IsTruthy(subject_to) THEN Format(subject_to) ELSE Chars("n/a")
    IN IF title # <<>> THEN title
       ELSE IF subject_name # <<>> /\ (IsTruthy(subject_from) \/ IsTruthy(subject_to))
            THEN subject_name \o <<" ">> \o from_label \o Chars(" -> ") \o to_label
       ELSE IF subject_name # <<>> THEN subject_name
       ELSE IF LocationResource(item) # <<>> THEN LocationResource(item)
       ELSE FindingType(item) \o Chars(" finding")

\* lines 417-424 and 426-431: append the normalized tag unless it is empty
\* or already there
AddTag(tags, value) ==
    LET normalized == LowerAll(Strip(value))
    IN IF normalized = <<>> \/ \E k \in 1..Len(tags) : tags[k] = normalized
       THEN tags
       ELSE Append(tags, normalized)

RECURSIVE AddTags(_, _)
AddTags(tags, values) ==
    IF values = <<>> THEN tags
    ELSE AddTags(IF Head(values).t = "str" THEN AddTag(tags, Head(values).s) ELSE tags,
                 Tail(values))

\* lines 437-439, before .strip().lower()
UpdateKindValue(item) ==
    LET subject_kind == Strip(OrEmpty(Get(SubjectData(item).kind)))
        component_kind == Get(DictOrEmpty(item.component).kind)
    IN IF subject_kind # <<>> THEN S(subject_kind) ELSE component_kind

\* lines 413-441
Tags(item) ==
    LET given == IF item.tags.t = "list" THEN AddTags(<<>>, item.tags.items) ELSE <<>>
        change_type == LowerAll(Strip(OrEmpty(Get(item.changeType))))
        with_change == IF change_type # <<>>
                       THEN AddTag(given, Chars("change:") \o change_type)
                       ELSE given
        update_kind == IF FindingType(item) = Chars("version")
                       THEN LowerAll(Strip(OrEmpty(UpdateKindValue(item))))
                       ELSE <<>>
    IN IF update_kind # <<>>
       THEN AddTag(with_change, Chars("update:") \o update_kind)
       ELSE with_change

\* lines 341-462: an exception raised while the entry is processed
ProcessingRaises(item) ==
    \/ OrEmptyRaises(Get(item.type))
    \/ OrEmptyRaises(Get(item.risk))
    \/ OrEmptyRaises(Get(item.summary))
    \/ OrEmptyRaises(Get(SubjectData(item).kind))
    \/ OrEmptyRaises(Get(SubjectData(item).name))
    \/ OrEmptyRaises(Get(item.title))
    \/ OrEmptyRaises(Get(item.changeType))
    \/ /\ FindingType(item) = Chars("version")
       /\ OrEmptyRaises(UpdateKindValue(item))
    \/ OrEmptyRaises(Get(item.diff))

\* line 479
Collapse(risk) == risk \notin {Chars("HIGH"), Chars("MEDIUM")}

\* lines 471-486, the keys the model keeps
Normalized(item, anchor) ==
    LET summary == truncate(OrEmpty(Get(item.summary)), SummaryLimit)
        risk == normalize_risk(Get(item.risk))
    IN [type |-> FindingType(item),
        title |-> Title(item),
        summary |-> IF summary # <<>> THEN summary ELSE Chars("n/a"),
        risk |-> risk,
        tags |-> Tags(item),
        anchor |-> anchor,
        collapse |-> Collapse(risk),
        subject |-> Subject(item),
        location |-> LocationResource(item),
        diff |-> Strip(OrEmpty(Get(item.diff)))]

\* a skipped entry, after it has taken an anchor
SkipWithAnchor(acc, item) ==
    [acc EXCEPT !.counter =
        make_anchor(acc.counter, Chars("finding"), TitleAsGiven(item), Chars("finding")).counter]

\* lines 337-339 and 488-490: the entry is skipped
Skip(acc, item) == acc

\* lines 336-490, one iteration: acc is normalized_findings and
\* finding_anchor_counter
ProcessItem(acc, item) ==
    IF ~item.obj \/ ProcessingRaises(item)
    THEN Skip(acc, item)
    ELSE LET made == make_anchor(acc.counter, Chars("finding"), Title(item), Chars("finding"))
         IN [findings |-> Append(acc.findings, Normalized(item, made.anchor)),
             counter |-> made.counter]

RECURSIVE ProcessItems(_, _)
ProcessItems(acc, items) ==
    IF items = <<>> THEN acc
    ELSE ProcessItems(ProcessItem(acc, Head(items)), Tail(items))

\* lines 333-490
NormalizedFindings(items) ==
    ProcessItems([findings |-> <<>>, counter |-> <<>>], items).findings

\* a sort key without the risk
KeyLessTitleOnly(a, b) == StrLess(a.title, b.title)

\* the sort key of line 499 is smaller for a than for b
KeyLess(a, b) ==
    \/ risk_sort_key(S(a.risk)) < risk_sort_key(S(b.risk))
    \/ /\ risk_sort_key(S(a.risk)) = risk_sort_key(S(b.risk))
       /\ StrLess(a.title, b.title)

\* list.sort(key=...): a stable sort, as insertion after the entries that
\* do not sort later
RECURSIVE InsertSorted(_, _)
InsertSorted(sorted, x) ==
    IF sorted = <<>> THEN <<x>>
    ELSE IF KeyLess(x, Head(sorted)) THEN <<x>> \o sorted
    ELSE <<Head(sorted)>> \o InsertSorted(Tail(sorted), x)

RECURSIVE SortEntries(_)
SortEntries(entries) ==
    IF entries = <<>> THEN <<>>
    ELSE InsertSorted(SortEntries(SubSeq(entries, 1, Len(entries) - 1)),
                      entries[Len(entries)])

\* sorted(keys) for a set of strings
RECURSIVE SortedKeys(_)
SortedKeys(keys) ==
    IF keys = {} THEN <<>>
    ELSE LET least == CHOOSE k \in keys : \A other \in keys \ {k} : StrLess(k, other)
         IN <<least>> \o SortedKeys(keys \ {least})

\* the entries of one type, in their order
RECURSIVE OfType(_, _)
OfType(findings, type) ==
    IF findings = <<>> THEN <<>>
    ELSE (IF Head(findings).type = type THEN <<Head(findings)>> ELSE <<>>)
         \o OfType(Tail(findings), type)

\* lines 492-500
FindingGroups(normalized_findings) ==
    LET types == {normalized_findings[k].type : k \in 1..Len(normalized_findings)}
        keys == SortedKeys(types)
    IN [g \in 1..Len(keys) |->
          [type |-> keys[g], findings |-> SortEntries(OfType(normalized_findings, keys[g]))]]

\* The value under findings or changes: NoList (no such key), NoneList
\* (null), NonList (a value that is no array) or List(items).
NoneList == [t |-> "none", items |-> <<>>]

IsNone(l) == l.t \in {"absent", "none"}

\* _get_findings ignoring the legacy key
get_findings_no_alias(data) ==
    IF IsNone(data.findings) THEN [t |-> "ok", items |-> <<>>]
    ELSE IF data.findings.t # "list" THEN [t |-> "raised", items |-> <<>>]
    ELSE [t |-> "ok", items |-> data.findings.items]

\* process_review._get_findings(data)
get_findings(data) ==
    LET first == data.findings
        findings_data == IF IsNone(first) THEN data.changes ELSE first
    IN IF IsNone(findings_data) THEN [t |-> "ok", items |-> <<>>]
       ELSE IF findings_data.t # "list" THEN [t |-> "raised", items |-> <<>>]
       ELSE [t |-> "ok", items |-> findings_data.items]

\* process_review.build_markdown(data, ...): the finding_groups handed to
\* the template, or the ValueError of line 534
build_markdown(data) ==
    LET found == get_findings(data)
        normalized_findings == NormalizedFindings(found.items)
    IN IF found.t = "raised"
       THEN [t |-> "raised", findings |-> <<>>, groups |-> <<>>]
       ELSE [t |-> "ok",
             findings |-> normalized_findings,
             groups |-> FindingGroups(normalized_findings)]

\* lines 167: (item.get("type") or "").lower() raises for a type that is
\* truthy and no string
CountingRaises(l) ==
    /\ l.t = "list"
    /\ \E k \in 1..Len(l.items) :
          l.items[k].obj /\ OrEmptyRaises(Get(l.items[k].type))

\* process_review.load_review_data(review_path, validate_structure), from
\* the parsed JSON object on: the returned report, or the exception
load_review_data(data, validate_structure) ==
    LET missing_fields ==
            \E v \in {data.approved, data.overallRisk, data.summary} : ~HasKey(v)
        findings_data == IF IsNone(data.findings) THEN data.changes ELSE data.findings
    IN IF validate_structure /\ missing_fields
       THEN [t |-> "raised", data |-> data]
       ELSE IF validate_structure /\ ~HasKey(data.findings) /\ ~HasKey(data.changes)
       THEN [t |-> "raised", data |-> data]
       ELSE IF CountingRaises(findings_data)
       THEN [t |-> "raised", data |-> data]
       ELSE [t |-> "ok", data |-> data]

\* validate_json.VALID_RISK_LEVELS
VALID_RISK_LEVELS ==
    { <<"C", "R", "I", "T", "I", "C", "A", "L">>, Chars("HIGH"), Chars("MEDIUM"),
      <<"L", "O", "W">>, <<"N", "E", "G", "L", "I", "G", "I", "B", "L", "E">> }

\* True, the one value of the model that is a bool
PyTrue == [t |-> "bool", s |-> <<>>]

\* validate_json._validate_field_types(data) raises
FieldTypesInvalid(data) ==
    \/ data.approved.t # "bool"
    \/ data.overallRisk.t # "str"
    \/ data.overallRisk.s \notin VALID_RISK_LEVELS
    \/ data.summary.t # "str"
    \/ data.findings.t # "list"

\* validate_json._validate_findings(findings) raises for this entry
FindingInvalid(finding) ==
    \/ ~finding.obj
    \/ \E v \in {finding.type, finding.title, finding.summary, finding.risk} : ~HasKey(v)
    \/ finding.type.t # "str"
    \/ Strip(finding.type.s) = <<>>
    \/ finding.risk.t # "str"
    \/ finding.risk.s \notin VALID_RISK_LEVELS

\* validate_json.validate_review_json(json_path), from the parsed JSON
\* object on and without a schema: "ok", or "rejected" for
\* ReviewValidationError
validate_review_json(data) ==
    IF \E v \in {data.approved, data.overallRisk, data.summary} : ~HasKey(v)
    THEN "rejected"
    ELSE IF ~HasKey(data.findings) THEN "rejected"
    ELSE IF FieldTypesInvalid(data) THEN "rejected"
    ELSE IF \E k \in 1..Len(data.findings.items) : FindingInvalid(data.findings.items[k])
    THEN "rejected"
    ELSE "ok"

\* mapping.get(key, default) for a mapping from strings
MapGet(mapping, key, default) ==
    IF key \in DOMAIN mapping THEN mapping[key] ELSE default

\* labels[name] = color on a dict that keeps insertion order
SetLabel(labels, name, color) ==
    IF \E k \in 1..Len(labels) : labels[k].name = name
    THEN [k \in 1..Len(labels) |->
            IF labels[k].name = name THEN [name |-> name, color |-> color] ELSE labels[k]]
    ELSE Append(labels, [name |-> name, color |-> color])

\* lines 756-760: the color map of a tag prefix; change and update are never
\* taken from tag_colors
HasColorMap(config, prefix) ==
    prefix \in {Chars("change"), Chars("update")} \cup DOMAIN config.tag_colors

ColorMap(config, prefix) ==
    IF prefix = Chars("change") THEN config.change_type_colors
    ELSE IF prefix = Chars("update") THEN config.update_colors
    ELSE config.tag_colors[prefix]

\* lines 769-777: one tag
TagLabel(labels, config, tag) ==
    IF tag.t # "str" \/ ~\E k \in 1..Len(tag.s) : tag.s[k] = ":"
    THEN labels
    ELSE LET text == LowerAll(Strip(tag.s))
             colon == CHOOSE k \in 1..Len(text) :
                         text[k] = ":" /\ \A j \in 1..(k - 1) : text[j] # ":"
             prefix == SubSeq(text, 1, colon - 1)
             value == SubSeq(text, colon + 1, Len(text))
         IN IF prefix = <<>> \/ value = <<>> \/ ~HasColorMap(config, prefix)
            THEN labels
            ELSE SetLabel(labels, prefix \o <<":">> \o value,
                          MapGet(ColorMap(config, prefix), value, config.default_color))

RECURSIVE TagLabels(_, _, _)
TagLabels(labels, config, tags) ==
    IF tags = <<>> THEN labels
    ELSE TagLabels(TagLabel(labels, config, Head(tags)), config, Tail(tags))

\* lines 785-791, before .lower(): the value update_kind is read from
LabelUpdateKind(finding) ==
    LET from_subject == IF finding.subject.t = "dict"
                        THEN OrEmpty(Get(finding.subject.kind)) ELSE <<>>
    IN IF from_subject = <<>> /\ finding.component.t = "dict"
       THEN LowerAll(OrEmpty(Get(finding.component.kind)))
       ELSE LowerAll(from_subject)

\* lines 779-794: an AttributeError while the finding is read
LabelsRaise(finding) ==
    LET entry_type == LowerAll(OrEmpty(Get(finding.type)))
    IN \/ OrEmptyRaises(Get(finding.type))
       \/ /\ entry_type = Chars("resource") \/ HasKey(finding.changeType)
          /\ OrEmptyRaises(Get(finding.changeType))
       \/ /\ entry_type = Chars("version")
          /\ \/ finding.subject.t = "dict" /\ OrEmptyRaises(Get(finding.subject.kind))
             \/ /\ ~(finding.subject.t = "dict" /\ OrEmpty(Get(finding.subject.kind)) # <<>>)
                /\ finding.component.t = "dict"
                /\ OrEmptyRaises(Get(finding.component.kind))

\* lines 763-794: the labels of one finding
FindingLabels(labels, config, finding) ==
    IF ~finding.obj THEN labels
    ELSE LET tagged == IF finding.tags.t = "list"
                       THEN TagLabels(labels, config, finding.tags.items)
                       ELSE labels
             entry_type == LowerAll(OrEmpty(Get(finding.type)))
             given_change == LowerAll(OrEmpty(Get(finding.changeType)))
             change_type == IF given_change # <<>> THEN given_change ELSE Chars("other")
             changed == IF entry_type = Chars("resource") \/ HasKey(finding.changeType)
                        THEN SetLabel(tagged, Chars("change:") \o change_type,
                                 MapGet(config.change_type_colors, change_type,
                                        config.default_color))
                        ELSE tagged
             update_kind == LabelUpdateKind(finding)
         IN IF entry_type = Chars("version") /\ update_kind # <<>>
            THEN SetLabel(changed, Chars("update:") \o update_kind,
                     MapGet(config.update_colors, update_kind, config.default_color))
            ELSE changed

RECURSIVE FindingsLabels(_, _, _)
FindingsLabels(labels, config, findings) ==
    IF findings = <<>> THEN labels
    ELSE FindingsLabels(FindingLabels(labels, config, Head(findings)), config,
                        Tail(findings))

\* process_review.derive_labels(data) under the label configuration
\* config: the label map in insertion order, or the exception
derive_labels(data, config) ==
    LET found == get_findings(data)
        raised == \/ found.t = "raised"
                  \/ \E k \in 1..Len(found.items) :
                        found.items[k].obj /\ LabelsRaise(found.items[k])
                  \/ OrEmptyRaises(Get(data.overallRisk))
        overall_risk == IF IsTruthy(Get(data.overallRisk))
                        THEN UpperAll(data.overallRisk.s)
                        ELSE <<"U", "N", "K", "N", "O", "W", "N">>
    IN IF raised
       THEN [t |-> "raised", labels |-> <<>>]
       ELSE [t |-> "ok",
             labels |-> SetLabel(FindingsLabels(<<>>, config, found.items),
                                 Chars("risk:") \o LowerAll(overall_risk),
                                 MapGet(config.risk_colors, overall_risk,
                                        config.default_color))]

-----------------------------------------------------------------------------
(* The reports the functions are applied to.                               *)

MaxFindings == 3        \* entries of a findings sequence
MaxCalls == 4           \* make_anchor calls on one counter
MaxText == 4            \* characters of a text given to truncate
MaxLimit == 6           \* the limit given to truncate

BaseItem ==
    [obj |-> TRUE, type |-> PyAbsent, title |-> PyAbsent, risk |-> PyAbsent,
     summary |-> PyAbsent, changeType |-> PyAbsent, resource |-> PyAbsent,
     subject |-> NoDict, component |-> NoDict, location |-> NoDict,
     tags |-> NoList, diff |-> PyAbsent]

Bug == S(<<"b", "u", "g">>)
Foo == S(<<"f", "o", "o">>)
Foo1 == S(<<"f", "o", "o", " ", "1">>)
High == S(Chars("HIGH"))
Low == S(<<"L", "O", "W">>)
Text == S(<<"s">>)

\* a complete finding
Finding(type, title, risk) ==
    [BaseItem EXCEPT !.type = type, !.title = title, !.risk = risk, !.summary = Text]

\* the entries findings sequences are built from: complete findings with
\* repeating titles and a title whose slug ends in a number, an entry that
\* is no object, entries whose processing raises early (type) and late
\* (evidence.diff), a finding of another type with tags, and a finding whose
\* title is a number
SeqItems ==
    { Finding(Bug, Foo, High),
      Finding(Bug, Foo1, Low),
      [BaseItem EXCEPT !.obj = FALSE],
      Finding(PyInt, Foo, Low),
      [Finding(Bug, Foo, Low) EXCEPT !.diff = PyInt],
      [Finding(S(<<"a", "p", "i">>), S(<<"B", "a", "r">>), S(Chars("MEDIUM")))
          EXCEPT !.changeType = S(<<"A", "d", "d">>),
                 !.tags = List(<<S(<<"s", "e", "c", ":", "x">>), PyInt>>)],
      Finding(Bug, PyInt, Low) }

RECURSIVE SeqsUpTo(_, _)
SeqsUpTo(items, n) ==
    IF n = 0 THEN {<<>>}
    ELSE LET shorter == SeqsUpTo(items, n - 1)
         IN shorter \cup {Append(s, x) : s \in {q \in shorter : Len(q) = n - 1}, x \in items}

\* raw finding objects with and without type, title, subject, component,
\* resource, location, changeType
ShapeItems ==
    { [BaseItem EXCEPT !.type = type, !.title = title, !.subject = subject,
                       !.component = component, !.resource = resource,
                       !.location = location, !.changeType = changeType] :
        type \in {PyAbsent, S(<<" ">>), Bug},
        title \in {PyAbsent, S(<<" ">>), Foo},
        subject \in {NoDict, NonDict,
                     Dict(S(<<"k">>), PyAbsent, PyAbsent, PyAbsent),
                     Dict(PyAbsent, S(<<"n">>), PyAbsent, PyAbsent),
                     Dict(PyAbsent, S(<<"n">>), S(<<"1">>), S(<<" ">>)),
                     Dict(PyAbsent, S(<<" ">>), PyInt, PyAbsent)},
        component \in {NoDict, NonDict,
                       Dict(S(<<"h", "e", "l", "m">>), S(<<"c">>), PyAbsent, S(<<"2">>))},
        resource \in {PyAbsent, S(<<" ">>), S(<<"r">>)},
        location \in {NoDict, LocationDict(S(<<"l">>)), LocationDict(PyInt)},
        changeType \in {PyAbsent, S(<<"A", "d", "d">>)} }

\* raw finding objects with every kind of risk
RiskItems ==
    { [BaseItem EXCEPT !.risk = risk, !.title = title] :
        risk \in {PyAbsent, PyNone, S(<<>>), High, Low, S(<<"h", "i", "g", "h">>),
                  S(<<"M", "e", "d", "i", "u", "m">>), S(<<" ", "H", "I", "G", "H">>),
                  S(<<"U", "N", "K", "N", "O", "W", "N">>)},
        title \in {PyAbsent, Foo} }

\* the top-level fields of a report
Report(approved, overallRisk, summary, findings, changes) ==
    [approved |-> approved, overallRisk |-> overallRisk, summary |-> summary,
     findings |-> findings, changes |-> changes]

Complete(findings, changes) == Report(PyTrue, Low, Text, findings, changes)

\* reports with a findings sequence under findings or under changes
SeqReports ==
    { Complete(List(s), NoList) : s \in SeqsUpTo(SeqItems, MaxFindings) }
    \cup { Complete(NoList, List(s)) : s \in SeqsUpTo(SeqItems, MaxFindings) }

\* reports with one raw finding
ShapeReports == { Complete(List(<<x>>), NoList) : x \in ShapeItems \cup RiskItems }

KeyValues ==
    { NoList, NoneList, NonList, List(<<>>), List(<<Finding(Bug, Foo, High)>>),
      List(<<Finding(Bug, Foo1, Low)>>), List(<<Finding(Bug, PyNone, Low)>>) }

\* reports with and without each key
KeyReports ==
    { Report(approved, overallRisk, summary, findings, changes) :
        approved \in {PyTrue, PyInt},
        overallRisk \in {Low, PyAbsent, PyInt, S(<<"U", "N", "K", "N", "O", "W", "N">>)},
        summary \in {Text, PyAbsent},
        findings \in KeyValues,
        changes \in KeyValues }

\* findings of one type and title with every rank of risk
SortItems ==
    { Finding(Bug, Foo, risk) :
        risk \in {PyAbsent, S(<<"h", "i", "g", "h">>),
                  S(<<"M", "e", "d", "i", "u", "m">>), Low,
                  S(<<" ", "H", "I", "G", "H">>)} }

\* reports whose findings have to be sorted by risk and title
SortReports == { Complete(List(s), NoList) : s \in SeqsUpTo(SortItems, MaxFindings) }

Reports == SeqReports \cup ShapeReports \cup KeyReports \cup SortReports

\* a label configuration (labels of config.yaml)
LabelConfig ==
    [default_color |-> "6f42c1",
     change_type_colors |-> (<<"a", "d", "d">> :> "0e8a16"),
     update_colors |-> (<<"h", "e", "l", "m">> :> "1d76db"),
     tag_colors |-> (<<"s", "e", "c">> :> (<<"x">> :> "b60205")),
     risk_colors |-> (<<"L", "O", "W">> :> "c2e0c6")]

\* a label configuration whose tag_colors define the prefixes risk and change
RiskTagConfig ==
    [LabelConfig EXCEPT
        !.tag_colors = (<<"r", "i", "s", "k">> :> (<<"h", "i", "g", "h">> :> "b60205"))
                       @@ (<<"c", "h", "a", "n", "g", "e">> :> (<<"a", "d", "d">> :> "ffffff"))]

LabelConfigs == {LabelConfig, RiskTagConfig}

Tag(chars) == List(<<S(chars)>>)

\* the findings label derivation is tried on: tags with the prefixes risk,
\* change and sec, a changeType, a version with a subject kind, a resource
LabelItems ==
    { [BaseItem EXCEPT !.tags = Tag(<<"r", "i", "s", "k", ":", "h", "i", "g", "h">>)],
      [BaseItem EXCEPT !.tags = List(<<S(<<"r", "i", "s", "k", ":", "l", "o", "w">>),
                                       S(<<"C", "h", "a", "n", "g", "e", ":", "A", "d", "d">>),
                                       S(<<"s", "e", "c", ":", "x">>)>>)],
      [BaseItem EXCEPT !.changeType = S(<<"A", "d", "d">>)],
      [BaseItem EXCEPT !.type = S(<<"V", "e", "r", "s", "i", "o", "n">>),
                       !.subject = Dict(S(<<"H", "e", "l", "m">>), PyAbsent, PyAbsent, PyAbsent)],
      [BaseItem EXCEPT !.type = S(Chars("resource"))] }

\* reports for label derivation, with and without overallRisk
LabelReports ==
    { Report(PyTrue, overallRisk, Text, List(s), NoList) :
        overallRisk \in {PyAbsent, Low, S(<<"h", "i", "g", "h">>)},
        s \in SeqsUpTo(LabelItems, MaxFindings) }

NoReport == [data |-> Complete(NoList, NoList), validate_structure |-> TRUE,
             config |-> LabelConfig]
NoOutput == [load |-> "none", validate |-> "none", build |-> "none", labels |-> "none"]

RpIdle ==
    /\ rpIn = NoReport
    /\ rpOut = NoOutput
    /\ rpPc = "idle"

\* validate_structure is only read where the keys of the report are
RpInit ==
    /\ rpIn \in [data : Reports, validate_structure : {TRUE}, config : {LabelConfig}]
                \cup [data : KeyReports, validate_structure : {FALSE},
                      config : {LabelConfig}]
    /\ rpOut = NoOutput
    /\ rpPc = "load"

\* the reports labels are derived from, under each label configuration
LabelsInit ==
    /\ rpIn \in [data : LabelReports, validate_structure : {TRUE}, config : LabelConfigs]
                \cup [data : KeyReports, validate_structure : {TRUE},
                      config : {LabelConfig}]
    /\ rpOut = NoOutput
    /\ rpPc = "load"

-----------------------------------------------------------------------------
(* The review report functions, each applied to the report.                *)

LoadReviewData ==
    /\ rpPc = "load"
    /\ rpOut' = [rpOut EXCEPT !.load = load_review_data(rpIn.data, rpIn.validate_structure)]
    /\ rpPc' = "validate"
    /\ UNCHANGED <<rpIn, amVars, pipeVars>>

ValidateReviewJson ==
    /\ rpPc = "validate"
    /\ rpOut' = [rpOut EXCEPT !.validate = validate_review_json(rpIn.data)]
    /\ rpPc' = "build"
    /\ UNCHANGED <<rpIn, amVars, pipeVars>>

BuildMarkdown ==
    /\ rpPc = "build"
    /\ rpOut' = [rpOut EXCEPT !.build = build_markdown(rpIn.data)]
    /\ rpPc' = "labels"
    /\ UNCHANGED <<rpIn, amVars, pipeVars>>

DeriveLabels ==
    /\ rpPc = "labels"
    /\ rpOut' = [rpOut EXCEPT !.labels = derive_labels(rpIn.data, rpIn.config)]
    /\ rpPc' = "done"
    /\ UNCHANGED <<rpIn, amVars, pipeVars>>

RpNext == LoadReviewData \/ ValidateReviewJson \/ BuildMarkdown \/ DeriveLabels

-----------------------------------------------------------------------------
(* The repo-level review configuration: config.load_review_config,         *)
(* config.get_auto_merge_config, followed by should_auto_merge.            *)

\* The value configured under a list key: NoValue (no such key), NullValue,
\* StrValue (a bare string), ListValue(entries) or OtherValue (a number).
NoValue == [t |-> "absent", s |-> <<>>, items |-> <<>>]
NullValue == [NoValue EXCEPT !.t = "none"]
StrValue(chars) == [NoValue EXCEPT !.t = "str", !.s = chars]
ListValue(items) == [NoValue EXCEPT !.t = "list", !.items = items]
OtherValue == [NoValue EXCEPT !.t = "other"]

\* config._normalize_string_list with whitespace-only entries kept
RECURSIVE CleanedKeepBlank(_)
CleanedKeepBlank(entries) ==
    IF entries = <<>> THEN <<>>
    ELSE (IF Head(entries).t = "str"
          THEN <<S(Strip(Head(entries).s))>> ELSE <<>>)
         \o CleanedKeepBlank(Tail(entries))

\* config._normalize_string_list, the loop over a list
RECURSIVE Cleaned(_)
Cleaned(entries) ==
    IF entries = <<>> THEN <<>>
    ELSE (IF Head(entries).t = "str" /\ Strip(Head(entries).s) # <<>>
          THEN <<S(Strip(Head(entries).s))>> ELSE <<>>)
         \o Cleaned(Tail(entries))

\* config._normalize_string_list(value)
normalize_string_list(value) ==
    CASE value.t = "str" ->
            IF Strip(value.s) # <<>> THEN <<S(Strip(value.s))>> ELSE <<>>
      [] value.t = "list" -> Cleaned(value.items)
      [] OTHER -> <<>>

\* False
PyFalse == [t |-> "false", s |-> <<>>]

\* bool(value)
Bool(v) == v.t = "bool" \/ IsTruthy(v)

\* The criteria of a mapping: the values under the three list keys.
Criteria(prefixes, regexes, authors) ==
    [branch_prefixes |-> prefixes, branch_regexes |-> regexes, author_logins |-> authors]

NoCriteria == Criteria(NoValue, NoValue, NoValue)

\* The value under allow: no such key, a value that is no mapping, or a
\* mapping with its criteria.
NoAllow == [t |-> "absent", criteria |-> NoCriteria]
NonMappingAllow == [t |-> "other", criteria |-> NoCriteria]
Allow(criteria) == [t |-> "dict", criteria |-> criteria]

\* The value under auto_merge: a mapping, or NoAutoMerge (no such key),
\* NullAutoMerge (null), NonMappingAutoMerge (a string).
AutoMerge(enabled, allow, criteria) ==
    [t |-> "dict", enabled |-> enabled, allow |-> allow, criteria |-> criteria]
NoAutoMerge == [AutoMerge(PyAbsent, NoAllow, NoCriteria) EXCEPT !.t = "absent"]
NullAutoMerge == [NoAutoMerge EXCEPT !.t = "none"]
NonMappingAutoMerge == [NoAutoMerge EXCEPT !.t = "other"]

\* DEFAULT_REVIEW_CONFIG["auto_merge"]
DefaultAutoMerge ==
    AutoMerge(PyFalse, NoAllow,
              Criteria(ListValue(<<>>), ListValue(<<>>), ListValue(<<>>)))

\* config.load_review_config(): the auto_merge value of the returned
\* configuration.  file is "missing", "unparseable", "no mapping" or
\* "mapping"; merged.update(data) keeps the default for a mapping without
\* the key.
load_review_config(review) ==
    IF review.file # "mapping" \/ review.auto_merge.t = "absent"
    THEN DefaultAutoMerge
    ELSE review.auto_merge

\* the configuration normalized from a mapping
NormalizedAutoMerge(raw) ==
    LET criteria == IF raw.allow.t = "dict" THEN raw.allow.criteria ELSE raw.criteria
    IN [enabled |-> IF Bool(Get(raw.enabled)) THEN "True" ELSE "False",
        branch_prefixes |-> L(normalize_string_list(criteria.branch_prefixes)),
        branch_regexes |-> L(normalize_string_list(criteria.branch_regexes)),
        author_logins |-> L(normalize_string_list(criteria.author_logins))]

\* config.get_auto_merge_config(config), config loaded from the file
get_auto_merge_config(review) ==
    LET loaded == load_review_config(review)
        raw == IF loaded.t = "none"
               THEN AutoMerge(PyAbsent, NoAllow, NoCriteria)
               ELSE loaded
    IN IF raw.t # "dict"
       THEN NormalizedAutoMerge(DefaultAutoMerge)
       ELSE NormalizedAutoMerge(raw)

\* The review configurations and pull requests the two functions are
\* applied to.
CfgEnabled == { PyAbsent, PyNone, PyTrue, PyFalse, S(<<>>), S(<<"n", "o">>) }

CfgPrefixes ==
    { NoValue, NullValue, OtherValue, ListValue(<<>>),
      StrValue(<<" ", "r", "/", " ">>), StrValue(<<" ">>),
      ListValue(<<S(<<" ", "f">>), PyInt, S(<<" ">>), S(<<"r", "/">>)>>),
      ListValue(<<PyInt, S(<<" ">>)>>) }

CfgRegexes == { NoValue, ListValue(<<S(<<"^", "r">>)>>), ListValue(<<PyInt>>) }

CfgAuthors ==
    { NoValue, StrValue(<<"b">>), ListValue(<<S(<<" ", "d", " ">>), S(<<"b">>)>>),
      ListValue(<<S(<<" ">>)>>) }

CfgAllows ==
    { NoAllow, NonMappingAllow, Allow(NoCriteria),
      Allow(Criteria(ListValue(<<S(<<"r", "/">>)>>), NoValue, NullValue)) }

ReviewConfigs ==
    { [file |-> f, auto_merge |-> NoAutoMerge] :
         f \in {"missing", "unparseable", "no mapping", "mapping"} }
    \cup { [file |-> "mapping", auto_merge |-> a] :
             a \in {NullAutoMerge, NonMappingAutoMerge} }
    \cup { [file |-> "mapping",
            auto_merge |-> AutoMerge(enabled, allow, Criteria(prefixes, regexes, authors))] :
             enabled \in CfgEnabled, allow \in CfgAllows, prefixes \in CfgPrefixes,
             regexes \in CfgRegexes, authors \in CfgAuthors }

CfgPulls ==
    { [ref |-> S(<<"r", "/", "x">>), login |-> S(<<"b">>)],
      [ref |-> S(<<"f">>), login |-> S(<<"d">>)],
      [ref |-> S(<<"m">>), login |-> S(<<"e">>)] }

NoConfig == [enabled |-> "none", branch_prefixes |-> Missing,
             branch_regexes |-> Missing, author_logins |-> Missing]

CfgInit ==
    /\ amIn \in [pr : CfgPulls, review : ReviewConfigs]
    /\ amOut = [config |-> NoConfig, result |-> <<FALSE, "none">>]
    /\ amPc = "config"

\* auto_merge_config = get_auto_merge_config()
GetAutoMergeConfig ==
    /\ amPc = "config"
    /\ amOut' = [amOut EXCEPT !.config = get_auto_merge_config(amIn.review)]
    /\ amPc' = "policy"
    /\ UNCHANGED <<amIn, pipeVars, rpVars>>

\* should_auto_merge(pr, auto_merge_config)
ShouldAutoMerge ==
    /\ amPc = "policy"
    /\ amOut' = [amOut EXCEPT !.result = should_auto_merge(amIn.pr, amOut.config)]
    /\ amPc' = "decided"
    /\ UNCHANGED <<amIn, pipeVars, rpVars>>

CfgNext == GetAutoMergeConfig \/ ShouldAutoMerge

-----------------------------------------------------------------------------
(* The two publish entry points on the same inputs: process_review.main    *)
(* (run 1), and then ReviewOrchestrator._process_review_results (run 2)    *)
(* against the pull request as run 1 found it.                             *)

\* Run 1 is main, not a dry run; run 2 waits with the same review data,
\* validation errors, pull request, configuration and environment.
TwinInit ==
    /\ \E i \in {p \in PipeInputs : p.entry = "main" /\ ~p.dry_run} :
       \E h \in { HostInit(c, labels, m) :
                     c \in { <<>>, <<Comment(0, "Bot")>> },
                     labels \in { {}, {"risk:low"}, {"change:other", "risk:low"} },
                     m \in BOOLEAN } :
          /\ inp = [r \in Runs |->
                      CASE r = 1 -> [initial_host |-> h] @@ i
                        [] r = 2 -> [initial_host |-> h] @@ [i EXCEPT !.entry = "orchestrator"]
                        [] OTHER -> NoInput]
          /\ host = h
    /\ run = [r \in Runs |-> CASE r = 1 -> Fresh("start")
                               [] r = 2 -> Fresh("twin")
                               [] OTHER -> Fresh("done")]
    /\ tokenType = "Bot"

\* _process_review_results(pr) up to the write of review.md (run_review.py
\* lines 530-560), started once main has ended without a failed host call,
\* on the pull request in the state main found it in
ProcessReviewResults(r) ==
    /\ run[r].pc = "twin"
    /\ run[1].pc = "done"
    /\ ~run[1].failed
    /\ run' = [run EXCEPT ![r] =
                  [WriteMarkdown(
                      Decide([run[r] EXCEPT !.validation_errors = inp[r].n_errors],
                             inp[r]))
                      EXCEPT !.pc = "apply_labels"]]
    /\ host' = inp[r].initial_host
    /\ UNCHANGED <<inp, tokenType, amVars, rpVars>>

TwinNext ==
    \E r \in Runs :
        \/ MainStart(r)
        \/ LoadPullRequest(r)
        \/ ProcessReviewResults(r)
        \/ GetLabels(r)
        \/ CreateLabel(r)
        \/ AddLabels(r)
        \/ ListComments(r)
        \/ CreateComment(r)
        \/ IsMerged(r)
        \/ CreateReview(r)
        \/ Merge(r)
        \/ DeleteRef(r)

-----------------------------------------------------------------------------
(* utils.make_anchor called repeatedly with one (prefix, text, fallback)  *)
(* on one counter, and utils.truncate applied to a text and to its own    *)
(* result.                                                                 *)

\* the strings of at most n characters over an alphabet
RECURSIVE StringsUpTo(_, _)
StringsUpTo(alphabet, n) ==
    IF n = 0 THEN {<<>>}
    ELSE LET shorter == StringsUpTo(alphabet, n - 1)
         IN shorter \cup {Append(s, c) : s \in {q \in shorter : Len(q) = n - 1}, c \in alphabet}

AnchorPrefixes == { <<>>, Chars("finding"), Chars("resource") }

\* texts with and without a slug, with padding, upper-case letters, runs of
\* other characters, and slugs that end in a number
AnchorTexts ==
    { <<>>, <<" ">>, <<"!", "!">>, <<"f", "o", "o">>, <<"F", "o", "o">>,
      <<"f", "o", "o", " ", "1">>, <<"f", "o", "o", "-", "1">>,
      <<" ", "a", " ", ".", "b", " ">>, <<"1">>, <<"-", "a", "-">> }

AnchorFallbacks == { Chars("finding"), <<"x">> }

\* counter = defaultdict(int), and no anchor made
AnchorInit ==
    /\ rpIn \in [prefix : AnchorPrefixes, text : AnchorTexts, fallback : AnchorFallbacks]
    /\ rpOut = [counter |-> <<>>, anchors |-> <<>>]
    /\ rpPc = "anchor"

\* one more make_anchor(counter, prefix, text, fallback)
MakeAnchor ==
    /\ rpPc = "anchor"
    /\ Len(rpOut.anchors) < MaxCalls
    /\ LET made == make_anchor(rpOut.counter, rpIn.prefix, rpIn.text, rpIn.fallback)
       IN rpOut' = [counter |-> made.counter, anchors |-> Append(rpOut.anchors, made.anchor)]
    /\ UNCHANGED <<rpIn, rpPc, amVars, pipeVars>>

AnchorNext == MakeAnchor

TruncateTexts == StringsUpTo({" ", "a", "."}, MaxText)

TruncateInit ==
    /\ rpIn \in [text : TruncateTexts, limit : 0..MaxLimit]
    /\ rpOut = [once |-> <<>>, twice |-> <<>>]
    /\ rpPc = "truncate"

\* truncate(text, limit)
Truncate ==
    /\ rpPc = "truncate"
    /\ rpOut' = [rpOut EXCEPT !.once = truncate(rpIn.text, rpIn.limit)]
    /\ rpPc' = "again"
    /\ UNCHANGED <<rpIn, amVars, pipeVars>>

\* truncate(truncate(text, limit), limit)
TruncateAgain ==
    /\ rpPc = "again"
    /\ rpOut' = [rpOut EXCEPT !.twice = truncate(rpOut.once, rpIn.limit)]
    /\ rpPc' = "done"
    /\ UNCHANGED <<rpIn, amVars, pipeVars>>

TruncateNext == Truncate \/ TruncateAgain

-----------------------------------------------------------------------------
(* The specifications.                                                     *)

Next ==
    \E r \in Runs :
        \/ MainStart(r)
        \/ LoadPullRequest(r)
        \/ OrchStart(r)
        \/ PluginComment(r)
        \/ ValidateStructured(r)
        \/ GetLabels(r)
        \/ CreateLabel(r)
        \/ AddLabels(r)
        \/ ListComments(r)
        \/ CreateComment(r)
        \/ IsMerged(r)
        \/ CreateReview(r)
        \/ Merge(r)
        \/ DeleteRef(r)

\* One run of the publish pipeline, from either entry point.
Init == PipeInit /\ AmIdle /\ RpIdle

Spec == Init /\ [][Next]_vars

\* The same run, which goes on for as long as it has a step to take.
SpecLive == Init /\ [][Next]_vars /\ WF_vars(Next)

PublishNext ==
    \E r \in Runs :
        \/ ListComments(r)
        \/ CreateComment(r)
        \/ Reinvoke(r)

\* Concurrent and consecutive publish_comment calls on one pull request.
InitPublish == PublishInit /\ AmIdle /\ RpIdle

SpecPublish == InitPublish /\ [][PublishNext]_vars

\* should_auto_merge over the bounded pull requests and configurations.
InitAutoMerge == AmInit /\ PipeIdle /\ RpIdle

SpecAutoMerge == InitAutoMerge /\ [][AmNext]_vars

\* the auto-merge configuration, loaded and applied to one pull request
InitConfig == CfgInit /\ PipeIdle /\ RpIdle
SpecConfig == InitConfig /\ [][CfgNext]_vars

\* main and then _process_review_results on the same inputs
InitTwin == TwinInit /\ AmIdle /\ RpIdle
SpecTwin == InitTwin /\ [][TwinNext]_vars

\* make_anchor, called again and again on one counter
InitAnchor == AnchorInit /\ AmIdle /\ PipeIdle
SpecAnchor == InitAnchor /\ [][AnchorNext]_vars

\* truncate, applied to a text and to its result
InitTruncate == TruncateInit /\ AmIdle /\ PipeIdle
SpecTruncate == InitTruncate /\ [][TruncateNext]_vars

\* the review report functions, applied to one report
InitReport == RpInit /\ AmIdle /\ PipeIdle
SpecReport == InitReport /\ [][RpNext]_vars

\* the same functions on the reports with tags, change types and update kinds
InitLabels == LabelsInit /\ AmIdle /\ PipeIdle
SpecLabels == InitLabels /\ [][RpNext]_vars

-----------------------------------------------------------------------------
(* The rule table of the auto-merge policy, stated over the rule lists.    *)

C2_Items(v) == IF v.present THEN v.items ELSE <<>>

C2_Text(v) == IF v.t = "str" THEN Strip(v.s) ELSE <<>>

C2_Quoted(kind, chars) == kind \o " '" \o Str(chars) \o "'"

C2_Expected(pr, config) ==
    LET prefixes == C2_Items(config.branch_prefixes)
        regexes == C2_Items(config.branch_regexes)
        authors == C2_Items(config.author_logins)
        branch == C2_Text(pr.ref)
        author == C2_Text(pr.login)
        PrefixHit(e) ==
            e.t = "str" /\ \E k \in 0..Len(branch) : e.s = SubSeq(branch, 1, k)
        RegexHit(e) == e.t = "str" /\ ~ReError(e.s) /\ ReSearch(e.s, branch)
        authorHit ==
            author # <<>> /\ \E i \in 1..Len(authors) : authors[i] = S(author)
        pHits == SelectSeq(prefixes, PrefixHit)
        rHits == SelectSeq(regexes, RegexHit)
        descriptions ==
            [i \in 1..Len(pHits) |-> C2_Quoted("branch prefix", pHits[i].s)]
            \o [i \in 1..Len(rHits) |-> C2_Quoted("branch regex", rHits[i].s)]
            \o (IF authorHit THEN <<C2_Quoted("author", author)>> ELSE <<>>)
        allowed == Len(pHits) > 0 \/ Len(rHits) > 0 \/ authorHit
        named ==
            (IF branch # <<>> THEN <<C2_Quoted("branch", branch)>> ELSE <<>>)
            \o (IF author # <<>> THEN <<C2_Quoted("author", author)>> ELSE <<>>)
    IN  IF config.enabled # "True" THEN <<FALSE, "disabled in repo config">>
        ELSE IF prefixes = <<>> /\ regexes = <<>> /\ authors = <<>>
             THEN <<TRUE, "enabled for all PRs">>
        ELSE IF allowed THEN <<TRUE, Join(descriptions, "; ")>>
        ELSE IF named = <<>> THEN <<FALSE, "no rules matched">>
        ELSE <<FALSE, "no rules matched for " \o Join(named, ", ")>>

\* C2: should_auto_merge(pr, config) equals the rule table for every PR and
\* config: disabled when enabled is false; allowed for all PRs when the three
\* rule lists are empty; otherwise allowed exactly when some prefix, regex or
\* author rule matches, the reason being the "; "-joined descriptions of all
\* matching rules, or "no rules matched ..." naming the non-empty branch/author.
C2_RuleTable ==
    amPc = "done" => amOut = C2_Expected(amIn.pr, amIn.config)

\* C2 witness: an enabled configuration in which two prefixes, a regex and
\* the author all match.
C2_Witness ==
    /\ amPc = "done"
    /\ amOut = <<TRUE, "branch prefix 'r'; branch prefix 'r/'; branch regex '^r'; author 'b'">>

-----------------------------------------------------------------------------
(* Properties of the publish pipeline.                                     *)

Has(events, e) == \E k \in 1..Len(events) : events[k] = e

\* the position of the first e in events, 0 when there is none
Pos(events, e) ==
    IF Has(events, e)
    THEN CHOOSE k \in 1..Len(events) :
             events[k] = e /\ \A j \in 1..(k - 1) : events[j] # e
    ELSE 0

\* host calls that change the pull request or the repository
PublishOps ==
    { "create_label", "add_to_labels", "create_issue_comment", "create_review",
      "merge", "delete_ref" }

SideEffectOps == PublishOps \cup { "plugin_comment" }

PipelineRun(r) == inp[r].entry \in {"main", "orchestrator"}

C1_AllFour(r) ==
    /\ inp[r].skip_env \notin { S(<<"1">>), S(<<"t", "r", "u", "e">>), S(<<"y", "e", "s">>) }
    /\ inp[r].event_name # "workflow_dispatch"
    /\ inp[r].n_errors = 0
    /\ Truthy(inp[r].approved)
    /\ should_auto_merge(inp[r].am.pr, inp[r].am.config)[1]

\* C1: in every run of the publish pipeline approve_and_merge is invoked, and
\* an approval review or a merge call is made, only if skip-merge is off, the
\* schema validation error list is empty, the report's approved field is
\* truthy and should_auto_merge returned allowed = true.
C1_MergeOnlyWhenAllFour ==
    \A r \in Runs :
        (\/ Has(run[r].events, "approve_and_merge")
         \/ Has(run[r].events, "create_review")
         \/ Has(run[r].events, "merge")
         \/ run[r].pc \in {"approve_and_merge", "create_review", "merge", "delete_ref"})
        => PipelineRun(r) /\ C1_AllFour(r)

\* C1 witness: a run that passed the gate, approved and merged, and ended.
C1_Witness ==
    \E r \in Runs :
        /\ C1_AllFour(r)
        /\ Has(run[r].events, "merge")
        /\ host.merged /\ host.approvals = 1
        /\ run[r].pc = "done" /\ run[r].exit = 0

\* C3: process_review.main exits with status 1 whenever schema validation
\* produced at least one error, in every mode in which it runs, and ends with
\* status 0 only when the validation error list is empty.
C3_ExitOneOnValidationErrors ==
    \A r \in Runs :
        (inp[r].entry = "main" /\ run[r].pc = "done")
        => /\ run[r].validation_errors > 0 => run[r].exit = 1
           /\ run[r].exit = 0 => run[r].validation_errors = 0

C7_NoCreateWhenBotListed ==
    \A r \in Runs :
        (/\ run[r].listed.state = "ok"
         /\ \E k \in 1..Len(run[r].listed.comments) :
               run[r].listed.comments[k].type = "Bot")
        => /\ ~Has(run[r].events, "create_issue_comment")
           /\ run[r].pc # "create_issue_comment"
           /\ inp[r].entry = "publish" => run[r].pc = "returned" /\ run[r].exit = 0

\* C7 witness: the second consecutive call of a run slot on a pull request
\* whose only bot comment was there before: it returned without a create call.
C7_Witness ==
    \E r \in Runs :
        /\ run[r].invocations = 2
        /\ run[r].listed = Listed(<<Comment(0, "User"), Comment(0, "Bot")>>)
        /\ run[r].pc = "returned"
        /\ host.comments = <<Comment(0, "User"), Comment(0, "Bot")>>

\* C8: when several workflow runs execute publish_comment concurrently on a
\* pull request that has no bot comment, no interleaving of their
\* list-comments and create-comment steps results in two or more comments
\* (the runs post as a Bot identity, and no listing fails).
C8_NoDuplicateComment ==
    (/\ tokenType = "Bot"
     /\ \A r \in Runs : inp[r].markdown = "text" /\ run[r].listed.state # "raised"
     /\ \A k \in 1..Len(host.comments) :
           host.comments[k].by = 0 => host.comments[k].type # "Bot")
    => Cardinality({ k \in 1..Len(host.comments) : host.comments[k].by # 0 }) <= 1

RetryOps == { "add_to_labels", "create_issue_comment", "create_review", "merge" }

\* the attempts, waits and outcome of the retry loop a run is in or was last in
C9_Attempts ==
    \A r \in Runs :
        run[r].lastOp \in RetryOps
        => /\ run[r].calls \in 1..3
           /\ (run[r].lastRes = "gh" /\ run[r].calls = 1)
              => run[r].pc = run[r].lastOp /\ run[r].sleeps = <<1>>
           /\ (run[r].lastRes = "gh" /\ run[r].calls = 2)
              => run[r].pc = run[r].lastOp /\ run[r].sleeps = <<1, 2>>
           /\ (run[r].lastRes = "gh" /\ run[r].calls = 3)
              => run[r].pc = "done" /\ run[r].exit = 1 /\ run[r].sleeps = <<1, 2>>
           /\ run[r].lastRes = "ok" => run[r].pc # run[r].lastOp

\* C9: comment creation, label application, approval review creation and
\* merge are each attempted at most 3 times per invocation: a GithubException
\* on attempt 1 or 2 is followed by a wait of 1 then 2 seconds and another
\* attempt, the first success ends the loop, and a GithubException on the
\* third attempt is propagated as a fatal error; the loop always terminates.
C9_BoundedRetry ==
    /\ []C9_Attempts
    /\ []<>(\A r \in Runs : run[r].pc \notin RetryOps)

\* C9 witness: a merge that succeeded on its third attempt, after waits of 1
\* and 2 seconds.
C9_Witness ==
    \E r \in Runs :
        /\ run[r].lastOp = "merge" /\ run[r].lastRes = "ok"
        /\ run[r].calls = 3 /\ run[r].sleeps = <<1, 2>>
        /\ host.merged

\* C10: label creation applies the same bounded retry as the other outbound
\* host calls: a create_label that fails with a transient (non-conflict) host
\* error becomes fatal only after 3 attempts.
C10_CreateLabelRetried ==
    \A r \in Runs :
        (/\ run[r].lastOp = "create_label"
         /\ run[r].lastRes = "gh500"
         /\ run[r].pc = "done")
        => run[r].calls = 3

CalledNames(l) == { l.labelCalls[k].name : k \in 1..Len(l.labelCalls) }

MergeSucceeded(l) ==
    \/ l.lastOp = "merge" /\ l.lastRes = "ok"
    \/ l.lastOp = "delete_ref"

\* C12: branch deletion is best-effort.  Once the merge call has succeeded
\* the run cannot fail any more: it is deleting the branch or has ended, and
\* it ends normally (status 0) whatever the deletion did, a GithubException on
\* all 3 attempts, another exception, or a failure reading the head or base
\* repository; and a deletion is attempted only when head and base repository
\* have the same full name, at most 3 times.
C12_BranchDeletionBestEffort ==
    \A r \in Runs :
        LET l == run[r]
        IN  /\ MergeSucceeded(l)
               => /\ host.merged
                  /\ l.pc \in {"delete_ref", "done"}
                  /\ l.pc = "done" => l.exit = 0
                  /\ l.pc = "delete_ref" => l.exit = -1
            /\ (Has(l.events, "delete_ref") \/ l.pc = "delete_ref")
               => l.head_base = "same" /\ MergeSucceeded(l)
            /\ l.lastOp = "delete_ref" => l.calls <= 3
            /\ host.branchDeleted
               => \E q \in Runs : run[q].lastOp = "delete_ref" /\ run[q].lastRes = "ok"

\* C12 witness: the merge succeeded, the deletion failed with a GithubException
\* three times, and the run ended with status 0 and the branch still there.
C12_Witness ==
    \E r \in Runs :
        /\ run[r].lastOp = "delete_ref" /\ run[r].lastRes = "gh"
        /\ run[r].calls = 3 /\ run[r].sleeps = <<1, 2>>
        /\ run[r].pc = "done" /\ run[r].exit = 0
        /\ host.merged /\ ~host.branchDeleted

\* C13: approve_and_merge makes its host calls in a fixed guarded order.  If
\* is_merged() returned true, no approval review, merge or branch deletion is
\* attempted; otherwise a merge is attempted only after is_merged() and after
\* an approval review has been created successfully, and a branch deletion
\* only after a merge attempt has succeeded; an approval that failed (retries
\* exhausted, or another exception) ends the run without a merge call.
C13_GuardedOrder ==
    \A r \in Runs :
        LET l == run[r]
            ev == l.events
        IN  /\ l.is_merged = "yes"
               => /\ ~Has(ev, "create_review") /\ ~Has(ev, "merge")
                  /\ ~Has(ev, "delete_ref")
                  /\ host.approvals = 0 /\ ~host.branchDeleted
                  /\ l.pc = "done" /\ l.exit = 0
            /\ (Has(ev, "create_review") \/ l.pc = "create_review")
               => /\ l.is_merged = "no"
                  /\ 0 < Pos(ev, "is_merged")
                  /\ Has(ev, "create_review") => Pos(ev, "is_merged") < Pos(ev, "create_review")
            /\ (Has(ev, "merge") \/ l.pc = "merge")
               => /\ host.approvals = 1
                  /\ 0 < Pos(ev, "create_review")
                  /\ Has(ev, "merge") => Pos(ev, "create_review") < Pos(ev, "merge")
            /\ (Has(ev, "delete_ref") \/ l.pc = "delete_ref")
               => /\ host.merged
                  /\ 0 < Pos(ev, "merge")
                  /\ Has(ev, "delete_ref") => Pos(ev, "merge") < Pos(ev, "delete_ref")
            /\ (l.lastOp = "create_review" /\ l.pc = "done")
               => /\ l.exit = 1 /\ host.approvals = 0
                  /\ ~Has(ev, "merge") /\ ~host.merged

\* C13 witness: approve_and_merge was entered for a pull request that was
\* merged already, and returned after is_merged() without any further call.
C13_Witness ==
    \E r \in Runs :
        /\ run[r].is_merged = "yes"
        /\ run[r].lastOp = "is_merged" /\ run[r].lastRes = "ok"
        /\ run[r].pc = "done" /\ run[r].exit = 0
        /\ host.merged /\ host.approvals = 0

\* the pull request with every read that raises answered by the empty string
C14_Readable(pr) ==
    [ref |-> IF pr.ref.t = "raise" THEN S(<<>>) ELSE pr.ref,
     login |-> IF pr.login.t = "raise" THEN S(<<>>) ELSE pr.login]

\* the rule list with every pattern that does not compile replaced by an entry
\* that is no pattern
C14_Compilable(v) ==
    [present |-> v.present,
     items |-> [k \in 1..Len(v.items) |->
                   IF v.items[k].t = "str" /\ ReError(v.items[k].s)
                   THEN PyInt ELSE v.items[k]]]

\* C14: should_auto_merge never propagates an error from its inputs.  It
\* returns an (allowed, reason) pair for every pull request and configuration,
\* and the pair is the one it returns when each read of pr.head.ref or
\* pr.user.login that raises gives the empty string instead and each invalid
\* entry of branch_regexes is an entry that is skipped: all the other rules are
\* evaluated as they would be without the failure.
C14_NoErrorPropagated ==
    amPc = "done"
    => /\ amOut[1] \in BOOLEAN
       /\ amOut[2] # "none"
       /\ amOut = should_auto_merge(
                      C14_Readable(amIn.pr),
                      [amIn.config EXCEPT
                          !.branch_regexes = C14_Compilable(@)])

\* C14 witness: the login read raises and the first pattern does not compile;
\* the second pattern is still tried and matches the branch.
C14_Witness ==
    /\ amPc = "done"
    /\ amIn.pr = [ref |-> S(<<"f">>), login |-> PyRaise]
    /\ amIn.config.enabled = "True"
    /\ amIn.config.branch_regexes = L(<<S(<<"*", "r">>), S(<<"f">>)>>)
    /\ amIn.config.author_logins = L(<<S(<<"b">>)>>)
    /\ amOut = <<TRUE, "branch regex 'f'">>

-----------------------------------------------------------------------------
(* Claims about the review report.                                         *)

\* the functions that have returned
Loaded == rpPc \in {"validate", "build", "labels", "done"}
Validated == rpPc \in {"build", "labels", "done"}
Built == rpPc \in {"labels", "done"}
Labelled == rpPc = "done"

\* the entries of the sequence build_markdown does not skip
WellFormed(items) == SelectSeq(items, LAMBDA x : x.obj /\ ~ProcessingRaises(x))

\* the anchors of the normalized findings, in the order they were made
Anchors(findings) == [k \in 1..Len(findings) |-> findings[k].anchor]

FindingFoo == <<"f", "i", "n", "d", "i", "n", "g", "-", "f", "o", "o">>

\* C15: a single-finding processing error never aborts the render.  For any
\* findings sequence, build_markdown does not fail because of an entry that is
\* no object or whose processing raises: it hands the template the groups it
\* hands it for the sequence without these entries (the normalized forms of the
\* remaining entries, with the same anchors, so a skipped entry consumes no
\* anchor name).
C15_SkipNeverAborts ==
    (Built /\ get_findings(rpIn.data).t = "ok")
    => LET kept == WellFormed(get_findings(rpIn.data).items)
           without == build_markdown([rpIn.data EXCEPT !.findings = List(kept),
                                                       !.changes = NoList])
       IN /\ rpOut.build.t = "ok"
          /\ Len(rpOut.build.findings) = Len(kept)
          /\ rpOut.build.findings = without.findings
          /\ rpOut.build.groups = without.groups

\* C15 witness: an entry whose type is a number and an entry that is no object
\* precede a finding with the same title; the render has the one finding, with
\* the anchor of a first use.
C15_Witness ==
    /\ Built
    /\ rpIn.data.findings =
          List(<<Finding(PyInt, Foo, Low), [BaseItem EXCEPT !.obj = FALSE],
                 Finding(Bug, Foo, High)>>)
    /\ rpOut.build.t = "ok"
    /\ Anchors(rpOut.build.findings) = <<FindingFoo>>

\* C16: anchors are unique within one render.  For every findings sequence,
\* the anchors of the normalized findings of one build_markdown call are
\* pairwise distinct, whatever the titles are.
C16_AnchorsUnique ==
    (Built /\ rpOut.build.t = "ok")
    => \A i, j \in 1..Len(rpOut.build.findings) :
          i # j => rpOut.build.findings[i].anchor # rpOut.build.findings[j].anchor

\* C17: every normalized finding emitted by build_markdown has a non-empty
\* type and a non-empty title, for every raw finding object (with or without
\* type, title, subject, component, resource, location), and its collapse flag
\* is false exactly when its risk, the upper-cased risk of the raw finding
\* (UNKNOWN for a missing or empty one), is HIGH or MEDIUM.
C17_TypeTitleCollapse ==
    (Built /\ rpOut.build.t = "ok")
    => LET kept == WellFormed(get_findings(rpIn.data).items)
       IN \A k \in 1..Len(rpOut.build.findings) :
             LET f == rpOut.build.findings[k]
                 raw == Get(kept[k].risk)
                 upper == IF raw.t = "str" /\ raw.s # <<>>
                          THEN UpperAll(raw.s)
                          ELSE <<"U", "N", "K", "N", "O", "W", "N">>
             IN /\ f.type # <<>>
                /\ f.title # <<>>
                /\ f.risk = upper
                /\ f.collapse = (upper \notin {Chars("HIGH"), Chars("MEDIUM")})

\* C17 witness: a raw finding with nothing but a lower-case risk gets the type
\* "finding", a title derived from the type, and is not collapsed.
C17_Witness ==
    /\ Built
    /\ rpIn.data.findings = List(<<[BaseItem EXCEPT !.risk = S(<<"h", "i", "g", "h">>)]>>)
    /\ rpOut.build.t = "ok"
    /\ Len(rpOut.build.findings) = 1
    /\ rpOut.build.findings[1].type = Chars("finding")
    /\ rpOut.build.findings[1].title = Chars("finding") \o Chars(" finding")
    /\ rpOut.build.findings[1].risk = Chars("HIGH")
    /\ ~rpOut.build.findings[1].collapse

\* C18: every report returned by a successful load_review_data has a findings
\* key (possibly with an empty sequence), also when the input used only the
\* legacy changes key and when structural validation is disabled and the input
\* has neither key.
C18_LoadedHasFindings ==
    (Loaded /\ rpOut.load.t = "ok") => HasKey(rpOut.load.data.findings)

\* the report with what is under findings and under changes exchanged
C19_Renamed(data) ==
    [data EXCEPT !.findings = data.changes, !.changes = data.findings]

\* C19: alias transparency.  For any report with one of the keys findings and
\* changes, the report with the same sequence under the other key gives the
\* same normalized finding groups from build_markdown and the same label map
\* from derive_labels; when both keys are present and findings is not null,
\* findings is the sequence used (the results are those without changes), and
\* when neither is present the sequence is empty.
C19_AliasTransparency ==
    Labelled
    => LET data == rpIn.data
       IN /\ (HasKey(data.findings) # HasKey(data.changes))
             => /\ rpOut.build = build_markdown(C19_Renamed(data))
                /\ rpOut.labels = derive_labels(C19_Renamed(data), rpIn.config)
          /\ (HasKey(data.findings) /\ HasKey(data.changes) /\ ~IsNone(data.findings))
             => /\ rpOut.build = build_markdown([data EXCEPT !.changes = NoList])
                /\ rpOut.labels = derive_labels([data EXCEPT !.changes = NoList], rpIn.config)
          /\ (~HasKey(data.findings) /\ ~HasKey(data.changes))
             => /\ rpOut.build.t = "ok" /\ rpOut.build.groups = <<>>
                /\ rpOut.labels = derive_labels([data EXCEPT !.findings = List(<<>>)],
                                                rpIn.config)

\* C19 witness: a report with its findings under changes only; the groups and
\* the labels are those of the findings.
C19_Witness ==
    /\ Labelled
    /\ rpIn.data.findings = NoList
    /\ rpIn.data.changes =
          List(<<[Finding(S(<<"a", "p", "i">>), S(<<"B", "a", "r">>), S(Chars("MEDIUM")))
                     EXCEPT !.changeType = S(<<"A", "d", "d">>),
                            !.tags = List(<<S(<<"s", "e", "c", ":", "x">>), PyInt>>)]>>)
    /\ rpOut.build.t = "ok"
    /\ Len(rpOut.build.groups) = 1
    /\ rpOut.build.groups[1].findings[1].title = <<"B", "a", "r">>
    /\ rpOut.labels.t = "ok"
    /\ rpOut.labels.labels =
          << [name |-> <<"s", "e", "c", ":", "x">>, color |-> "b60205"],
             [name |-> Chars("change:") \o <<"a", "d", "d">>, color |-> "0e8a16"],
             [name |-> Chars("risk:") \o <<"l", "o", "w">>, color |-> "c2e0c6"] >>

\* C20: the structured-output validator accepts a report only if every entry
\* of findings is an object that has type, title, summary and risk, with a
\* type that is a non-empty string, a title and a summary that are strings, and
\* a risk among CRITICAL, HIGH, MEDIUM, LOW, NEGLIGIBLE; it rejects every other
\* report.
C20_ValidatorRejectsBadFindings ==
    (Validated /\ rpOut.validate = "ok")
    => /\ rpIn.data.findings.t = "list"
       /\ \A k \in 1..Len(rpIn.data.findings.items) :
             LET finding == rpIn.data.findings.items[k]
             IN /\ finding.obj
                /\ finding.type.t = "str" /\ Strip(finding.type.s) # <<>>
                /\ finding.title.t = "str"
                /\ finding.summary.t = "str"
                /\ finding.risk.t = "str" /\ finding.risk.s \in VALID_RISK_LEVELS

\* the labels of the map whose name starts with "risk:"
RiskLabels(labels) ==
    { k \in 1..Len(labels) : StartsWith(labels[k].name, Chars("risk:")) }

\* C21: for every report and every label configuration, configurations whose
\* tag_colors define arbitrary prefixes included, the map derive_labels returns
\* contains exactly one label whose name starts with "risk:".
C21_ExactlyOneRiskLabel ==
    (Labelled /\ rpOut.labels.t = "ok")
    => Cardinality(RiskLabels(rpOut.labels.labels)) = 1

-----------------------------------------------------------------------------
(* Claims about the review configuration.                                  *)

Configured == amPc \in {"policy", "decided"}
Decided == amPc = "decided"

\* the mapping get_auto_merge_config reads the criteria from: under allow when
\* allow is a mapping, else auto_merge itself
C22_Criteria(auto_merge) ==
    IF auto_merge.allow.t = "dict" THEN auto_merge.allow.criteria ELSE auto_merge.criteria

\* the non-empty, whitespace-trimmed string entries of a configured value,
\* in their order
C22_Entries(value) ==
    LET NonBlank(e) == e.t = "str" /\ \E i \in 1..Len(e.s) : e.s[i] # " "
        kept == SelectSeq(value.items, NonBlank)
    IN CASE value.t = "str" ->
               IF \E i \in 1..Len(value.s) : value.s[i] # " "
               THEN <<S(Strip(value.s))>> ELSE <<>>
         [] value.t = "list" -> [k \in 1..Len(kept) |-> S(Strip(kept[k].s))]
         [] OTHER -> <<>>

\* C22: get_auto_merge_config always returns enabled (a boolean),
\* branch_prefixes, branch_regexes and author_logins, where each list holds the
\* non-empty, whitespace-trimmed string entries of the configured value in
\* their order (non-string and whitespace-only entries dropped, a bare string
\* taken as a one-element list, a missing value as the empty list); when the
\* review config is missing, unparseable or not a mapping, the result is
\* enabled = false with three empty lists.
C22_NormalizedConfig ==
    Configured
    => LET review == amIn.review
           config == amOut.config
       IN /\ config.enabled \in {"True", "False"}
          /\ \A key \in {"branch_prefixes", "branch_regexes", "author_logins"} :
                config[key].present
          /\ (review.file # "mapping" \/ review.auto_merge.t # "dict")
             => config = [enabled |-> "False", branch_prefixes |-> L(<<>>),
                          branch_regexes |-> L(<<>>), author_logins |-> L(<<>>)]
          /\ (review.file = "mapping" /\ review.auto_merge.t = "dict")
             => \A key \in {"branch_prefixes", "branch_regexes", "author_logins"} :
                   config[key].items = C22_Entries(C22_Criteria(review.auto_merge)[key])

\* C22 witness: a list with a padded entry, a number, a blank entry and a plain
\* entry is normalized to the two strings, trimmed, in their order.
C22_Witness ==
    /\ Configured
    /\ amIn.review.file = "mapping"
    /\ amIn.review.auto_merge.t = "dict"
    /\ amIn.review.auto_merge.allow = NoAllow
    /\ amIn.review.auto_merge.criteria.branch_prefixes =
          ListValue(<<S(<<" ", "f">>), PyInt, S(<<" ">>), S(<<"r", "/">>)>>)
    /\ amOut.config.branch_prefixes = L(<<S(<<"f">>), S(<<"r", "/">>)>>)


\* the rank of a raw risk value: HIGH, MEDIUM, LOW, UNKNOWN (or no risk),
\* any other value, whatever the case of the letters
Rank(risk) ==
    IF risk.t # "str" \/ risk.s = <<>> THEN 3
    ELSE CASE LowerAll(risk.s) = <<"h", "i", "g", "h">> -> 0
           [] LowerAll(risk.s) = <<"m", "e", "d", "i", "u", "m">> -> 1
           [] LowerAll(risk.s) = <<"l", "o", "w">> -> 2
           [] LowerAll(risk.s) = <<"u", "n", "k", "n", "o", "w", "n">> -> 3
           [] OTHER -> 4

\* the number of places of a sequence that hold x
Occurrences(seq, x) == Cardinality({k \in 1..Len(seq) : seq[k] = x})

\* the findings of all groups, group after group
RECURSIVE Grouped(_)
Grouped(groups) ==
    IF groups = <<>> THEN <<>> ELSE Head(groups).findings \o Grouped(Tail(groups))

\* a and b are in ascending order of (risk rank, title)
Ascending(a, b) ==
    \/ Rank(S(a.risk)) < Rank(S(b.risk))
    \/ Rank(S(a.risk)) = Rank(S(b.risk)) /\ ~StrLess(b.title, a.title)

\* C23: in the groups build_markdown hands to the template, every non-skipped
\* finding appears in exactly one group, the group of its type; the groups
\* are in ascending lexicographic order of their types; within a group the
\* findings are in ascending order of (risk rank, title), the rank ordering
\* HIGH < MEDIUM < LOW < UNKNOWN < every other value, a risk compared without
\* regard to case and a missing risk counting as UNKNOWN.
C23_GroupedAndSorted ==
    (Built /\ rpOut.build.t = "ok")
    => LET findings == rpOut.build.findings
           groups == rpOut.build.groups
           kept == WellFormed(get_findings(rpIn.data).items)
       IN /\ Len(Grouped(groups)) = Len(findings)
          /\ \A k \in 1..Len(findings) :
                /\ Occurrences(Grouped(groups), findings[k]) = Occurrences(findings, findings[k])
                /\ \E g \in 1..Len(groups) :
                      /\ groups[g].type = findings[k].type
                      /\ \E j \in 1..Len(groups[g].findings) :
                            groups[g].findings[j] = findings[k]
                /\ Rank(S(findings[k].risk)) = Rank(Get(kept[k].risk))
          /\ \A g \in 1..Len(groups) :
                /\ \A j \in 1..Len(groups[g].findings) :
                      groups[g].findings[j].type = groups[g].type
                /\ \A h \in 1..Len(groups) : g < h => StrLess(groups[g].type, groups[h].type)
                /\ \A i, j \in 1..Len(groups[g].findings) :
                      i < j => Ascending(groups[g].findings[i], groups[g].findings[j])

\* C23 witness: a finding with an unrecognized risk, one with no risk and one
\* with risk "high", given in this order, come out in one group in the
\* opposite order.
C23_Witness ==
    /\ Built
    /\ rpIn.data.findings =
          List(<<Finding(Bug, Foo, S(<<" ", "H", "I", "G", "H">>)),
                 Finding(Bug, Foo, PyAbsent),
                 Finding(Bug, Foo, S(<<"h", "i", "g", "h">>))>>)
    /\ Len(rpOut.build.groups) = 1
    /\ [k \in 1..3 |-> rpOut.build.groups[1].findings[k].risk]
          = <<Chars("HIGH"), <<"U", "N", "K", "N", "O", "W", "N">>, <<" ", "H", "I", "G", "H">> >>


\* the base anchor of the calls: "prefix-slug", or the slug alone when there
\* is no prefix, the slug being the fallback for a text without one
BareAnchor ==
    LET slug == slugify(rpIn.text, rpIn.fallback)
    IN IF rpIn.prefix = <<>> THEN slug ELSE rpIn.prefix \o <<"-">> \o slug

\* C24: make_anchor never returns a duplicate for repeated identical input
\* within one counter lifetime.  The anchors of N calls with the same
\* (prefix, text) on one counter are pairwise distinct, the first is the bare
\* "prefix-slug" and the k-th, k >= 2, is "prefix-slug-(k-1)".
C24_RepeatedAnchorsDistinct ==
    rpPc = "anchor"
    => LET anchors == rpOut.anchors
       IN /\ \A i, j \in 1..Len(anchors) : i # j => anchors[i] # anchors[j]
          /\ \A k \in 1..Len(anchors) :
                anchors[k] = IF k = 1 THEN BareAnchor
                             ELSE BareAnchor \o <<"-">> \o Digits(k - 1)

\* C24 witness: four calls with prefix "finding" and a text whose slug ends
\* in a number
C24_Witness ==
    /\ rpPc = "anchor"
    /\ rpIn.prefix = Chars("finding")
    /\ rpIn.text = <<"f", "o", "o", " ", "1">>
    /\ Len(rpOut.anchors) = MaxCalls
    /\ rpOut.anchors[1] = Chars("finding") \o <<"-", "f", "o", "o", "-", "1">>
    /\ rpOut.anchors[2] = Chars("finding") \o <<"-", "f", "o", "o", "-", "1", "-", "1">>


\* the last three characters of a text are "..."
EndsWithDots(text) ==
    /\ Len(text) >= 3
    /\ SubSeq(text, Len(text) - 2, Len(text)) = <<".", ".", ".">>

\* C25: truncate is idempotent for every text and every limit:
\* truncate(truncate(text, limit), limit) = truncate(text, limit); when the
\* trimmed text is at most limit characters long the result is the trimmed
\* text, and otherwise the result is exactly limit characters long and ends
\* with "...".
C25_TruncateIdempotent ==
    rpPc = "done"
    => /\ rpOut.twice = rpOut.once
       /\ Len(Strip(rpIn.text)) <= rpIn.limit => rpOut.once = Strip(rpIn.text)
       /\ Len(Strip(rpIn.text)) > rpIn.limit
             => Len(rpOut.once) = rpIn.limit /\ EndsWithDots(rpOut.once)


\* a configured value lists at least one entry, valid or not
C26_ListsEntry(value) ==
    \/ value.t = "str"
    \/ value.t = "list" /\ value.items # <<>>

\* the pull request's branch and author match none of the entries listed
\* under the criteria
C26_MatchesNone(pr, criteria) ==
    /\ PrefixMatches(C22_Entries(criteria.branch_prefixes), pr.ref.s) = <<>>
    /\ RegexMatches(C22_Entries(criteria.branch_regexes), pr.ref.s) = <<>>
    /\ AuthorMatches(C22_Entries(criteria.author_logins), pr.login.s) = <<>>

\* C26: auto-merge rules never fail open.  If the repository's auto_merge
\* configuration is enabled and lists at least one entry under
\* branch_prefixes, branch_regexes or author_logins, then for a pull request
\* whose branch and author match none of the listed entries
\* get_auto_merge_config followed by should_auto_merge returns allowed =
\* false, also when every listed entry is invalid (no string, or
\* whitespace only) and is dropped by the normalization.
C26_NeverFailsOpen ==
    (/\ Decided
     /\ amIn.review.file = "mapping"
     /\ amIn.review.auto_merge.t = "dict"
     /\ Bool(Get(amIn.review.auto_merge.enabled))
     /\ \E key \in {"branch_prefixes", "branch_regexes", "author_logins"} :
           C26_ListsEntry(C22_Criteria(amIn.review.auto_merge)[key])
     /\ C26_MatchesNone(amIn.pr, C22_Criteria(amIn.review.auto_merge)))
    => ~amOut.result[1]


\* a non-dry-run orchestrator run that has ended, on a pull request without
\* comments at the start, with review.md rendered and no failed host call
C27_CleanOrchestratorRun(r) ==
    /\ inp[r].entry = "orchestrator"
    /\ ~inp[r].dry_run
    /\ run[r].pc = "done"
    /\ ~run[r].failed
    /\ "write_md" \in Range(run[r].events)
    /\ \A k \in 1..Len(host.comments) : host.comments[k].by # 0

\* C27: in a non-dry-run orchestrator run on a pull request that has no
\* comments at the start, in which every host call succeeds, the rendered
\* review markdown is posted as a comment exactly once before the run ends,
\* whether or not a plugin's comment_content was posted to the pull request
\* earlier in the same run.
C27_ReviewPostedOnce ==
    \A r \in Runs :
        C27_CleanOrchestratorRun(r)
        => Occurrences(run[r].events, "create_issue_comment") = 1


\* a run of process_review.main that has ended after it built the markdown,
\* and wrote review.md, with automerged = true
C28_SaidAutomerged(r) ==
    /\ inp[r].entry = "main"
    /\ run[r].pc = "done"
    /\ Has(run[r].events, "write_md")
    /\ will_automerge(run[r])

\* C28: the automerged status rendered into review.md and the published
\* comment is truthful.  Whenever the markdown is built with automerged =
\* true, the run goes on to call approve_and_merge and the pull request is
\* merged when the run ends; no run publishes automerged = true and then
\* ends, normally or with an error in labeling, commenting, approval or
\* merge, with the pull request unmerged.
C28_AutomergedTruthful ==
    \A r \in Runs :
        C28_SaidAutomerged(r)
        => /\ Has(run[r].events, "approve_and_merge")
           /\ host.merged


\* the side-effecting host operations of a run, in the order they were
\* started
C29_Effects(events) == SelectSeq(events, LAMBDA e : e \in PublishOps)

\* both entry points have run to their end, the second without a failed
\* host call as the first, and those that asked were told the same about the
\* head and base repositories of the pull request
C29_BothEnded ==
    /\ run[1].pc = "done" /\ ~run[1].failed
    /\ run[2].pc = "done" /\ ~run[2].failed
    /\ Has(run[2].events, "write_md")
    /\ \/ run[1].head_base = run[2].head_base
       \/ run[1].head_base = "none"
       \/ run[2].head_base = "none"

\* C29: the two publish entry points agree.  For the same review data,
\* schema validation errors, pull request, auto-merge configuration and
\* environment, process_review.main (not a dry run) and
\* ReviewOrchestrator._process_review_results perform the same sequence of
\* side-effecting host operation kinds (apply labels, publish comment, then
\* approve-and-merge or not) and end with the same exit status.
C29_EntryPointsAgree ==
    C29_BothEnded
    => /\ C29_Effects(run[1].events) = C29_Effects(run[2].events)
       /\ run[1].exit = run[2].exit

\* C29 witness: both entry points create a label, comment, approve, merge and
\* delete the branch, and end with status 0
C29_Witness ==
    /\ C29_BothEnded
    /\ C29_Effects(run[2].events) =
          <<"create_label", "add_to_labels", "create_issue_comment",
            "create_review", "merge", "delete_ref">>
    /\ C29_Effects(run[1].events) = C29_Effects(run[2].events)
    /\ run[1].exit = 0
    /\ run[2].exit = 0


\* the orders a sequence of n entries can be given in
C30_Orders(n) == { p \in [1..n -> 1..n] : \A i, j \in 1..n : p[i] = p[j] => i = j }

\* the report with its findings sequence in the order p
C30_Reordered(data, p) ==
    LET key == IF IsNone(data.findings) THEN "changes" ELSE "findings"
        items == data[key].items
    IN [data EXCEPT ![key] = List([k \in 1..Len(items) |-> items[p[k]]])]

\* a label map as the set of its (name, color) pairs
C30_Pairs(out) == { out.labels[k] : k \in 1..Len(out.labels) }

\* reports with at most one finding, to compare the colors with
C30_OtherReports ==
    { Report(PyTrue, overallRisk, Text, List(s), NoList) :
        overallRisk \in {PyAbsent, Low, S(<<"h", "i", "g", "h">>)},
        s \in SeqsUpTo(LabelItems, 1) }

\* every order of the findings gives the same label names with the same
\* colors
C30_SameInEveryOrder ==
    (Labelled /\ get_findings(rpIn.data).t = "ok")
    => \A p \in C30_Orders(Len(get_findings(rpIn.data).items)) :
          LET other == derive_labels(C30_Reordered(rpIn.data, p), rpIn.config)
          IN /\ other.t = rpOut.labels.t
             /\ C30_Pairs(other) = C30_Pairs(rpOut.labels)

\* under one configuration a label name has one color, whatever report it
\* was derived from
C30_ColorByName ==
    (Labelled /\ rpOut.labels.t = "ok")
    => \A other \in C30_OtherReports :
          \A mine \in C30_Pairs(rpOut.labels),
             theirs \in C30_Pairs(derive_labels(other, rpIn.config)) :
                mine.name = theirs.name => mine.color = theirs.color

\* C30: the label map returned by derive_labels does not depend on the order
\* of the findings.  For a fixed label configuration, every permutation of
\* the findings sequence yields the same set of label names with the same
\* colors, and the color of each label is a function of its name and the
\* configuration only: last-write-wins never changes a color, and the final
\* risk label always overrides any tag-derived label of the same name.
C30_OrderIndependentLabels == C30_SameInEveryOrder /\ C30_ColorByName

=============================================================================
